---------------------------- MODULE Spec2Model ----------------------------
(***************************************************************************)
(* A model of the retrieval-augmented answering engine:                    *)
(*   - the in-process lexical store  (backend/app/services/vectorstore.py) *)
(*   - the product catalog           (backend/app/services/products.py)    *)
(*   - the RAG pipeline              (backend/app/services/rag.py)         *)
(*   - the trace-context layer       (backend/app/services/observability.py)*)
(*                                                                         *)
(* Text is a finite sequence of one-character strings (a literal of the    *)
(* source is kept as one element), so that tokenising, lower-casing,       *)
(* joining and rendering are computed rather than assumed.                 *)
(***************************************************************************)
EXTENDS Integers, Sequences, FiniteSets, TLC

\* ------------------------------------------------------------------ bounds
MaxDocs == 3
MaxTopK == 3
MaxRequests == 2

\* Python's None where a text may stand; an optional number or object is the
\* empty tuple when absent and a one-element tuple when present
None == <<"None">>
NoValue == <<>>

\* -------------------------------------------------------------------- text
Min(a, b) == IF a <= b THEN a ELSE b
Max(a, b) == IF a >= b THEN a ELSE b

\* A character is a one-character string; the characters a string of this
\* module can hold are those of Latin-1 (U+0000 to U+00FF).
LowerAlphabet == <<"a", "b", "c", "d", "e", "f", "g", "h", "i", "j", "k", "l", "m",
                   "n", "o", "p", "q", "r", "s", "t", "u", "v", "w", "x", "y", "z">>
UpperAlphabet == <<"A", "B", "C", "D", "E", "F", "G", "H", "I", "J", "K", "L", "M",
                   "N", "O", "P", "Q", "R", "S", "T", "U", "V", "W", "X", "Y", "Z">>
LowerLetters == {LowerAlphabet[i] : i \in DOMAIN LowerAlphabet}
UpperLetters == {UpperAlphabet[i] : i \in DOMAIN UpperAlphabet}
Digits == {"0", "1", "2", "3", "4", "5", "6", "7", "8", "9"}

\* the upper-case letters beyond ASCII (U+00C0 to U+00DE but the sign U+00D7)
\* and, at the same positions, what str.lower() makes of them
UpperAccented == <<"À", "Á", "Â", "Ã", "Ä", "Å", "Æ", "Ç", "È", "É", "Ê",
                   "Ë", "Ì", "Í", "Î", "Ï", "Ð", "Ñ", "Ò", "Ó", "Ô", "Õ",
                   "Ö", "Ø", "Ù", "Ú", "Û", "Ü", "Ý", "Þ">>
LowerAccented == <<"à", "á", "â", "ã", "ä", "å", "æ", "ç", "è", "é", "ê",
                   "ë", "ì", "í", "î", "ï", "ð", "ñ", "ò", "ó", "ô", "õ",
                   "ö", "ø", "ù", "ú", "û", "ü", "ý", "þ">>

\* str.lower() on the characters it changes
LowerCaseOf ==
  [c \in UpperLetters \cup {UpperAccented[i] : i \in DOMAIN UpperAccented} |->
     IF c \in UpperLetters
     THEN LowerAlphabet[CHOOSE i \in DOMAIN UpperAlphabet : UpperAlphabet[i] = c]
     ELSE LowerAccented[CHOOSE i \in DOMAIN UpperAccented : UpperAccented[i] = c]]

\* str.lower() on one character: an upper-case letter becomes its lower-case
\* one, every other character stays
LowerChar(c) == IF c \in DOMAIN LowerCaseOf THEN LowerCaseOf[c] ELSE c

\* str.lower()
Lower(s) == [i \in 1..Len(s) |-> LowerChar(s[i])]

\* the character class [A-Za-z0-9] of the pattern: ASCII letters and digits
IsAlnum(c) == c \in LowerLetters \cup UpperLetters \cup Digits

\* Python truthiness of an optional string
Truthy(v) == v /= None /\ v /= <<>>

\* dict.get(key) / dict.get(key, default)
Get(d, k) == IF k \in DOMAIN d THEN d[k] ELSE None
GetOr(d, k, dflt) == IF k \in DOMAIN d THEN d[k] ELSE dflt

\* sep.join(parts)
RECURSIVE Join(_, _)
Join(parts, sep) ==
  IF Len(parts) = 0 THEN <<>>
  ELSE IF Len(parts) = 1 THEN parts[1]
  ELSE parts[1] \o sep \o Join(Tail(parts), sep)

\* seq[:k], Python slice semantics (a negative k counts from the end)
Slice(s, k) ==
  IF k >= 0 THEN SubSeq(s, 1, Min(k, Len(s)))
  ELSE SubSeq(s, 1, Max(0, Len(s) + k))

\* [x for x in s if keep(x)]
RECURSIVE SelectIdx(_, _, _)
SelectIdx(s, keep, i) ==
  IF i > Len(s) THEN <<>>
  ELSE (IF s[i] \in keep THEN <<s[i]>> ELSE <<>>) \o SelectIdx(s, keep, i + 1)
Filter(s, keep) == SelectIdx(s, keep, 1)

\* ------------------------------------------------ InMemoryVectorStore

\* re.findall(r"[A-Za-z0-9]+", text): the maximal alphanumeric runs, scanning
\* from position i with the run read so far in cur
RECURSIVE FindRuns(_, _, _)
FindRuns(text, i, cur) ==
  IF i > Len(text) THEN (IF cur = <<>> THEN {} ELSE {cur})
  ELSE IF IsAlnum(text[i]) THEN FindRuns(text, i + 1, Append(cur, text[i]))
  ELSE (IF cur = <<>> THEN {} ELSE {cur}) \cup FindRuns(text, i + 1, <<>>)

\* InMemoryVectorStore._tokenize
Tokenize(text) == FindRuns(Lower(text), 1, <<>>)

\* ---- the arithmetic of line 127: overlap / math.sqrt(len(doc_tokens))
\* The score is an IEEE 754 double. A positive double is kept as <<e, a, b, c>>:
\* the value m * 2^e with the mantissa m = a * 2^40 + b * 2^20 + c of 53 bits,
\* 2^52 <= m < 2^53. A natural number below 2^80 is kept as four limbs of 20
\* bits, <<w, a, b, c>>, the most significant first.
Base == 1048576
Norm(x) ==
  LET c3 == x[3] + x[4] \div Base
      c2 == x[2] + c3 \div Base
  IN <<x[1] + c2 \div Base, c2 % Base, c3 % Base, x[4] % Base>>
FromInt(k) == Norm(<<0, 0, 0, k>>)
\* x * k for 0 <= k <= 1024
Times(x, k) == Norm(<<x[1] * k, x[2] * k, x[3] * k, x[4] * k>>)
Plus(x, y) == Norm(<<x[1] + y[1], x[2] + y[2], x[3] + y[3], x[4] + y[4]>>)
\* x - y; its first limb is negative exactly when x < y
Minus(x, y) == Norm(<<x[1] - y[1], x[2] - y[2], x[3] - y[3], x[4] - y[4]>>)
AtLeast(x, y) == Minus(x, y)[1] >= 0
\* x \div k for k = 2 or k = 4
Shrink(x, k) ==
  <<x[1] \div k,
    (x[1] % k) * (Base \div k) + x[2] \div k,
    (x[2] % k) * (Base \div k) + x[3] \div k,
    (x[3] % k) * (Base \div k) + x[4] \div k>>
\* x * 2^e for 0 <= e <= 60
ShiftBy(e, i) == IF e - 10 * i >= 10 THEN 1024 ELSE IF e - 10 * i <= 0 THEN 1 ELSE 2 ^ (e - 10 * i)
Shift(x, e) ==
  Times(Times(Times(Times(Times(Times(x, ShiftBy(e, 0)), ShiftBy(e, 1)), ShiftBy(e, 2)),
                    ShiftBy(e, 3)), ShiftBy(e, 4)), ShiftBy(e, 5))
BigZero == <<0, 0, 0, 0>>
BigOne == <<0, 0, 0, 1>>
TwoTo53 == <<0, 8192, 0, 0>>

\* the double of mantissa m and exponent e; rounding may have carried m to 2^53
Normal(m, e) == IF m = TwoTo53 THEN <<e + 1, 4096, 0, 0>> ELSE <<e, m[2], m[3], m[4]>>

\* the number of base-4 digits and the number of bits of 1 <= n < 2^30
Digits4(n) == CHOOSE l \in 1..15 : 4 ^ (l - 1) <= n /\ n < 4 ^ l
BitLen(n) == CHOOSE l \in 1..30 : 2 ^ (l - 1) <= n /\ n < 2 ^ l

\* n is scaled by a power of 4 to 108 bits, of which these are the i-th 6
\* from the top, i in 1..18; s is the even number of bits of n
Chunk(n, s, i) ==
  LET u == 6 * i - s
  IN IF u >= 6 THEN 0
     ELSE IF u >= 0 THEN (n % (2 ^ (6 - u))) * (2 ^ u)
     ELSE (n \div (2 ^ (0 - u))) % 64

\* the one element of a set of one element
Only(S) == CHOOSE x \in S : TRUE

\* the square root three bits at a step: <<root, remainder>> after the
\* eighteen steps from the i-th on; at is <<root, remainder>> before them
RECURSIVE SqrtSteps(_, _, _, _)
SqrtSteps(n, s, i, at) ==
  IF i > 18 THEN at
  ELSE LET have == Plus(Times(at[2], 64), FromInt(Chunk(n, s, i)))
           twice == Times(at[1], 16)
           Cost(q) == Times(Plus(twice, FromInt(q)), q)
           digit == {d \in 0..7 : AtLeast(have, Cost(d)) /\ (d = 7 \/ ~AtLeast(have, Cost(d + 1)))}
           next == {<<Plus(Times(at[1], 8), FromInt(q)), Minus(have, Cost(q))>> : q \in digit}
       IN Only({SqrtSteps(n, s, i + 1, to) : to \in next})

\* math.sqrt(n) for an integer 1 <= n < 2^30: the square root correctly
\* rounded to 53 bits, to nearest and to even on a tie
FloatSqrt(n) ==
  LET len == Digits4(n)
      end == SqrtSteps(n, 2 * len, 1, <<BigZero, BigZero>>)
      half == Shrink(end[1], 2)
      up == end[1][4] % 2 = 1 /\ (end[2] /= BigZero \/ half[4] % 2 = 1)
  IN Normal(IF up THEN Plus(half, BigOne) ELSE half, len - 53)

\* the long division three bits at a step: <<quotient, remainder>> after the
\* eighteen steps from the i-th on; at is <<quotient, remainder>> before them
RECURSIVE DivSteps(_, _, _)
DivSteps(m, i, at) ==
  IF i > 18 THEN at
  ELSE LET have == Times(at[2], 8)
           digit == {d \in 0..7 : AtLeast(have, Times(m, d)) /\ (d = 7 \/ ~AtLeast(have, Times(m, d + 1)))}
           next == {<<Plus(Times(at[1], 8), FromInt(q)), Minus(have, Times(m, q))>> : q \in digit}
       IN Only({DivSteps(m, i + 1, to) : to \in next})

\* k / d for an integer 1 <= k < 2^30 and a positive double d: the quotient
\* correctly rounded to 53 bits, to nearest and to even on a tie
FloatDiv(k, d) ==
  LET m == <<0, d[2], d[3], d[4]>>
      bits == 53 - BitLen(k)
      x == Shift(FromInt(k), bits)
      less == ~AtLeast(x, m)
      t == IF less THEN bits + 1 ELSE bits
      end == DivSteps(m, 1, <<BigOne, Minus(IF less THEN Times(x, 2) ELSE x, m)>>)
      low == end[1][4] % 4
      most == Shrink(end[1], 4)
      up == low = 3 \/ (low = 2 /\ (end[2] /= BigZero \/ most[4] % 2 = 1))
  IN Normal(IF up THEN Plus(most, BigOne) ELSE most, 0 - t - 52 - d[1])

\* overlap / math.sqrt(ntokens), 1 <= overlap
FloatScore(overlap, ntokens) == FloatDiv(overlap, FloatSqrt(ntokens))

\* the doubles overlap / math.sqrt(ntokens) of the documents of up to
\* TableTokens distinct tokens (no document of this module has more), written
\* out so that a look-up costs no arithmetic: ScoreTable[ntokens][overlap].
\* ScoreTableComputed says that they are the values FloatScore computes.
ScoreTable ==
  <<
    << <<-52, 4096, 0, 0>> >>,
    << <<-53, 5792, 648807, 998348>>, <<-52, 5792, 648807, 998348>> >>,
    << <<-53, 4729, 685145, 13085>>, <<-52, 4729, 685145, 13085>>, <<-52, 7094, 503429, 543915>> >>,
    << <<-53, 4096, 0, 0>>, <<-52, 4096, 0, 0>>, <<-52, 6144, 0, 0>>,
      <<-51, 4096, 0, 0>> >>,
    << <<-54, 7327, 154715, 1043929>>, <<-53, 7327, 154715, 1043929>>, <<-52, 5495, 378180, 1045091>>,
      <<-52, 7327, 154715, 1043929>>, <<-51, 4579, 489913, 521384>> >>,
    << <<-54, 6688, 775936, 797759>>, <<-53, 6688, 775936, 797759>>, <<-52, 5016, 581952, 598319>>,
      <<-52, 6688, 775936, 797759>>, <<-51, 4180, 484960, 498599>>, <<-51, 5016, 581952, 598319>> >>,
    << <<-54, 6192, 597610, 522214>>, <<-53, 6192, 597610, 522214>>, <<-52, 4644, 448207, 915949>>,
      <<-52, 6192, 597610, 522214>>, <<-52, 7740, 747013, 128480>>, <<-51, 4644, 448207, 915949>>,
      <<-51, 5418, 522909, 194793>> >>,
    << <<-54, 5792, 648807, 998348>>, <<-53, 5792, 648807, 998348>>, <<-52, 4344, 486605, 1010905>>,
      <<-52, 5792, 648807, 998348>>, <<-52, 7240, 811009, 985791>>, <<-51, 4344, 486605, 1010905>>,
      <<-51, 5068, 567706, 1004627>>, <<-51, 5792, 648807, 998348>> >>,
    << <<-54, 5461, 349525, 349525>>, <<-53, 5461, 349525, 349525>>, <<-52, 4096, 0, 0>>,
      <<-52, 5461, 349525, 349525>>, <<-52, 6826, 699050, 699051>>, <<-51, 4096, 0, 0>>,
      <<-51, 4778, 699050, 699051>>, <<-51, 5461, 349525, 349525>>, <<-51, 6144, 0, 0>> >>,
    << <<-54, 5181, 79396, 542991>>, <<-53, 5181, 79396, 542991>>, <<-53, 7771, 643382, 814486>>,
      <<-52, 5181, 79396, 542991>>, <<-52, 6476, 361389, 678738>>, <<-52, 7771, 643382, 814486>>,
      <<-51, 4533, 462687, 999405>>, <<-51, 5181, 79396, 542991>>, <<-51, 5828, 744681, 86576>>,
      <<-51, 6476, 361389, 678738>> >>,
    << <<-54, 4939, 1008593, 354342>>, <<-53, 4939, 1008593, 354342>>, <<-53, 7409, 988602, 7225>>,
      <<-52, 4939, 1008593, 354342>>, <<-52, 6174, 998597, 705071>>, <<-52, 7409, 988602, 7225>>,
      <<-51, 4322, 489303, 178977>>, <<-51, 4939, 1008593, 354342>>, <<-51, 5557, 479307, 529707>>,
      <<-51, 6174, 998597, 705071>>, <<-51, 6792, 469311, 880436>> >>,
    << <<-54, 4729, 685145, 13085>>, <<-53, 4729, 685145, 13085>>, <<-53, 7094, 503429, 543915>>,
      <<-52, 4729, 685145, 13085>>, <<-52, 5912, 69999, 278500>>, <<-52, 7094, 503429, 543915>>,
      <<-51, 4138, 468429, 928953>>, <<-51, 4729, 685145, 13085>>, <<-51, 5320, 901860, 145792>>,
      <<-51, 5912, 69999, 278500>>, <<-51, 6503, 286714, 411207>>, <<-51, 7094, 503429, 543915>> >>,
    << <<-54, 4544, 109059, 780438>>, <<-53, 4544, 109059, 780438>>, <<-53, 6816, 163589, 646369>>,
      <<-52, 4544, 109059, 780438>>, <<-52, 5680, 136324, 713404>>, <<-52, 6816, 163589, 646369>>,
      <<-52, 7952, 190854, 579335>>, <<-51, 4544, 109059, 780438>>, <<-51, 5112, 122692, 222633>>,
      <<-51, 5680, 136324, 713404>>, <<-51, 6248, 149957, 155598>>, <<-51, 6816, 163589, 646369>>,
      <<-51, 7384, 177222, 88564>> >>,
    << <<-54, 4378, 847446, 9258>>, <<-53, 4378, 847446, 9258>>, <<-53, 6568, 222593, 13887>>,
      <<-52, 4378, 847446, 9258>>, <<-52, 5473, 535019, 535860>>, <<-52, 6568, 222593, 13887>>,
      <<-52, 7662, 958742, 540489>>, <<-51, 4378, 847446, 9258>>, <<-51, 4926, 166944, 796847>>,
      <<-51, 5473, 535019, 535860>>, <<-51, 6020, 903094, 274874>>, <<-51, 6568, 222593, 13887>>,
      <<-51, 7115, 590667, 801476>>, <<-51, 7662, 958742, 540489>> >>,
    << <<-54, 4230, 346669, 325338>>, <<-53, 4230, 346669, 325338>>, <<-53, 6345, 520003, 1012296>>,
      <<-52, 4230, 346669, 325338>>, <<-52, 5287, 957624, 668817>>, <<-52, 6345, 520003, 1012296>>,
      <<-52, 7403, 82383, 307198>>, <<-51, 4230, 346669, 325338>>, <<-51, 4759, 127858, 1021366>>,
      <<-51, 5287, 957624, 668817>>, <<-51, 5816, 738814, 316268>>, <<-51, 6345, 520003, 1012296>>,
      <<-51, 6874, 301193, 659747>>, <<-51, 7403, 82383, 307198>>, <<-51, 7931, 912148, 1003225>> >>,
    << <<-54, 4096, 0, 0>>, <<-53, 4096, 0, 0>>, <<-53, 6144, 0, 0>>,
      <<-52, 4096, 0, 0>>, <<-52, 5120, 0, 0>>, <<-52, 6144, 0, 0>>,
      <<-52, 7168, 0, 0>>, <<-51, 4096, 0, 0>>, <<-51, 4608, 0, 0>>,
      <<-51, 5120, 0, 0>>, <<-51, 5632, 0, 0>>, <<-51, 6144, 0, 0>>,
      <<-51, 6656, 0, 0>>, <<-51, 7168, 0, 0>>, <<-51, 7680, 0, 0>>,
      <<-50, 4096, 0, 0>> >>,
    << <<-55, 7947, 427149, 175900>>, <<-54, 7947, 427149, 175900>>, <<-53, 5960, 582505, 918357>>,
      <<-53, 7947, 427149, 175900>>, <<-52, 4967, 135896, 241010>>, <<-52, 5960, 582505, 918357>>,
      <<-52, 6953, 1029115, 547129>>, <<-52, 7947, 427149, 175900>>, <<-51, 4470, 436879, 426624>>,
      <<-51, 4967, 135896, 241010>>, <<-51, 5463, 883489, 55395>>, <<-51, 5960, 582505, 918357>>,
      <<-51, 6457, 281522, 732743>>, <<-51, 6953, 1029115, 547129>>, <<-51, 7450, 728132, 361514>>,
      <<-51, 7947, 427149, 175900>>, <<-50, 4222, 63082, 1043719>> >>,
    << <<-55, 7723, 515551, 981607>>, <<-54, 7723, 515551, 981607>>, <<-53, 5792, 648807, 998349>>,
      <<-53, 7723, 515551, 981607>>, <<-52, 4827, 191147, 1006720>>, <<-52, 5792, 648807, 998349>>,
      <<-52, 6758, 57891, 989978>>, <<-52, 7723, 515551, 981607>>, <<-51, 4344, 486605, 1010906>>,
      <<-51, 4827, 191147, 1006720>>, <<-51, 5309, 944265, 1002535>>, <<-51, 5792, 648807, 998349>>,
      <<-51, 6275, 353349, 994164>>, <<-51, 6758, 57891, 989978>>, <<-51, 7240, 811009, 985792>>,
      <<-51, 7723, 515551, 981607>>, <<-50, 4103, 110046, 1012999>>, <<-50, 4344, 486605, 1010906>> >>,
    << <<-55, 7517, 518801, 309558>>, <<-54, 7517, 518801, 309558>>, <<-53, 5638, 126956, 1018600>>,
      <<-53, 7517, 518801, 309558>>, <<-52, 4698, 455322, 848834>>, <<-52, 5638, 126956, 1018600>>,
      <<-52, 6577, 847167, 139791>>, <<-52, 7517, 518801, 309558>>, <<-51, 4228, 619505, 763950>>,
      <<-51, 4698, 455322, 848834>>, <<-51, 5168, 291139, 933717>>, <<-51, 5638, 126956, 1018600>>,
      <<-51, 6107, 1011350, 54908>>, <<-51, 6577, 847167, 139791>>, <<-51, 7047, 682984, 224675>>,
      <<-51, 7517, 518801, 309558>>, <<-51, 7987, 354618, 394441>>, <<-50, 4228, 619505, 763950>>,
      <<-50, 4463, 537414, 282104>> >>,
    << <<-55, 7327, 154715, 1043929>>, <<-54, 7327, 154715, 1043929>>, <<-53, 5495, 378180, 1045091>>,
      <<-53, 7327, 154715, 1043929>>, <<-52, 4579, 489913, 521384>>, <<-52, 5495, 378180, 1045091>>,
      <<-52, 6411, 266448, 520222>>, <<-52, 7327, 154715, 1043929>>, <<-51, 4121, 545779, 783818>>,
      <<-51, 4579, 489913, 521384>>, <<-51, 5037, 434047, 258949>>, <<-51, 5495, 378180, 1045091>>,
      <<-51, 5953, 322314, 782656>>, <<-51, 6411, 266448, 520222>>, <<-51, 6869, 210582, 257787>>,
      <<-51, 7327, 154715, 1043929>>, <<-51, 7785, 98849, 781494>>, <<-50, 4121, 545779, 783818>>,
      <<-50, 4350, 517846, 652601>>, <<-50, 4579, 489913, 521384>> >>,
    << <<-55, 7150, 591215, 760889>>, <<-54, 7150, 591215, 760889>>, <<-53, 5362, 967699, 832811>>,
      <<-53, 7150, 591215, 760889>>, <<-52, 4469, 107365, 868772>>, <<-52, 5362, 967699, 832811>>,
      <<-52, 6256, 779457, 796850>>, <<-52, 7150, 591215, 760889>>, <<-52, 8044, 402973, 724928>>,
      <<-51, 4469, 107365, 868772>>, <<-51, 4916, 13244, 850791>>, <<-51, 5362, 967699, 832811>>,
      <<-51, 5809, 873578, 814830>>, <<-51, 6256, 779457, 796850>>, <<-51, 6703, 685336, 778869>>,
      <<-51, 7150, 591215, 760889>>, <<-51, 7597, 497094, 742909>>, <<-51, 8044, 402973, 724928>>,
      <<-50, 4245, 678714, 353474>>, <<-50, 4469, 107365, 868772>>, <<-50, 4692, 584593, 335493>> >>,
    << <<-55, 6986, 168897, 890191>>, <<-54, 6986, 168897, 890191>>, <<-53, 5239, 650961, 405500>>,
      <<-53, 6986, 168897, 890191>>, <<-52, 4366, 367705, 163154>>, <<-52, 5239, 650961, 405500>>,
      <<-52, 6112, 934217, 647845>>, <<-52, 6986, 168897, 890191>>, <<-52, 7859, 452154, 83961>>,
      <<-51, 4366, 367705, 163154>>, <<-51, 4802, 1033621, 284327>>, <<-51, 5239, 650961, 405500>>,
      <<-51, 5676, 268301, 526673>>, <<-51, 6112, 934217, 647845>>, <<-51, 6549, 551557, 769018>>,
      <<-51, 6986, 168897, 890191>>, <<-51, 7422, 834813, 1011364>>, <<-51, 7859, 452154, 83961>>,
      <<-50, 4148, 34747, 102567>>, <<-50, 4366, 367705, 163154>>, <<-50, 4584, 700663, 223740>>,
      <<-50, 4802, 1033621, 284327>> >>,
    << <<-55, 6832, 629480, 1004442>>, <<-54, 6832, 629480, 1004442>>, <<-53, 5124, 472110, 753332>>,
      <<-53, 6832, 629480, 1004442>>, <<-52, 4270, 393425, 627776>>, <<-52, 5124, 472110, 753332>>,
      <<-52, 5978, 550795, 878887>>, <<-52, 6832, 629480, 1004442>>, <<-52, 7686, 708166, 81422>>,
      <<-51, 4270, 393425, 627776>>, <<-51, 4697, 432768, 166266>>, <<-51, 5124, 472110, 753332>>,
      <<-51, 5551, 511453, 291821>>, <<-51, 5978, 550795, 878887>>, <<-51, 6405, 590138, 417377>>,
      <<-51, 6832, 629480, 1004442>>, <<-51, 7259, 668823, 542932>>, <<-51, 7686, 708166, 81422>>,
      <<-51, 8113, 747508, 668487>>, <<-50, 4270, 393425, 627776>>, <<-50, 4483, 937384, 921309>>,
      <<-50, 4697, 432768, 166266>>, <<-50, 4910, 976727, 459799>> >>,
    << <<-55, 6688, 775936, 797759>>, <<-54, 6688, 775936, 797759>>, <<-53, 5016, 581952, 598319>>,
      <<-53, 6688, 775936, 797759>>, <<-52, 4180, 484960, 498599>>, <<-52, 5016, 581952, 598319>>,
      <<-52, 5852, 678944, 698039>>, <<-52, 6688, 775936, 797759>>, <<-52, 7524, 872928, 897478>>,
      <<-51, 4180, 484960, 498599>>, <<-51, 4598, 533456, 548459>>, <<-51, 5016, 581952, 598319>>,
      <<-51, 5434, 630448, 648179>>, <<-51, 5852, 678944, 698039>>, <<-51, 6270, 727440, 747899>>,
      <<-51, 6688, 775936, 797759>>, <<-51, 7106, 824432, 847619>>, <<-51, 7524, 872928, 897478>>,
      <<-51, 7942, 921424, 947338>>, <<-50, 4180, 484960, 498599>>, <<-50, 4389, 509208, 523529>>,
      <<-50, 4598, 533456, 548459>>, <<-50, 4807, 557704, 573389>>, <<-50, 5016, 581952, 598319>> >>,
    << <<-55, 6553, 629145, 629146>>, <<-54, 6553, 629145, 629146>>, <<-53, 4915, 209715, 209715>>,
      <<-53, 6553, 629145, 629146>>, <<-52, 4096, 0, 0>>, <<-52, 4915, 209715, 209715>>,
      <<-52, 5734, 419430, 419430>>, <<-52, 6553, 629145, 629146>>, <<-52, 7372, 838860, 838861>>,
      <<-51, 4096, 0, 0>>, <<-51, 4505, 629145, 629146>>, <<-51, 4915, 209715, 209715>>,
      <<-51, 5324, 838860, 838861>>, <<-51, 5734, 419430, 419430>>, <<-51, 6144, 0, 0>>,
      <<-51, 6553, 629145, 629146>>, <<-51, 6963, 209715, 209715>>, <<-51, 7372, 838860, 838861>>,
      <<-51, 7782, 419430, 419430>>, <<-50, 4096, 0, 0>>, <<-50, 4300, 838860, 838861>>,
      <<-50, 4505, 629145, 629146>>, <<-50, 4710, 419430, 419430>>, <<-50, 4915, 209715, 209715>>,
      <<-50, 5120, 0, 0>> >>,
    << <<-55, 6426, 349717, 95772>>, <<-54, 6426, 349717, 95772>>, <<-53, 4819, 786575, 858261>>,
      <<-53, 6426, 349717, 95772>>, <<-53, 8032, 961434, 381859>>, <<-52, 4819, 786575, 858261>>,
      <<-52, 5623, 43858, 477017>>, <<-52, 6426, 349717, 95772>>, <<-52, 7229, 655575, 763104>>,
      <<-52, 8032, 961434, 381859>>, <<-51, 4418, 109358, 524595>>, <<-51, 4819, 786575, 858261>>,
      <<-51, 5221, 415217, 143351>>, <<-51, 5623, 43858, 477017>>, <<-51, 6024, 721075, 810682>>,
      <<-51, 6426, 349717, 95772>>, <<-51, 6827, 1026934, 429438>>, <<-51, 7229, 655575, 763104>>,
      <<-51, 7631, 284217, 48193>>, <<-51, 8032, 961434, 381859>>, <<-50, 4217, 295037, 882050>>,
      <<-50, 4418, 109358, 524595>>, <<-50, 4618, 972255, 167140>>, <<-50, 4819, 786575, 858261>>,
      <<-50, 5020, 600896, 500806>>, <<-50, 5221, 415217, 143351>> >>,
    << <<-55, 6306, 214476, 17446>>, <<-54, 6306, 214476, 17446>>, <<-53, 4729, 685145, 13084>>,
      <<-53, 6306, 214476, 17446>>, <<-53, 7882, 792383, 21807>>, <<-52, 4729, 685145, 13084>>,
      <<-52, 5517, 974098, 539553>>, <<-52, 6306, 214476, 17446>>, <<-52, 7094, 503429, 543914>>,
      <<-52, 7882, 792383, 21807>>, <<-51, 4335, 540668, 274138>>, <<-51, 4729, 685145, 13084>>,
      <<-51, 5123, 829621, 800607>>, <<-51, 5517, 974098, 539553>>, <<-51, 5912, 69999, 278499>>,
      <<-51, 6306, 214476, 17446>>, <<-51, 6700, 358952, 804968>>, <<-51, 7094, 503429, 543914>>,
      <<-51, 7488, 647906, 282861>>, <<-51, 7882, 792383, 21807>>, <<-50, 4138, 468429, 928953>>,
      <<-50, 4335, 540668, 274138>>, <<-50, 4532, 612906, 667899>>, <<-50, 4729, 685145, 13084>>,
      <<-50, 4926, 757383, 406845>>, <<-50, 5123, 829621, 800607>>, <<-50, 5320, 901860, 145792>> >>
  >>
TableTokens == Len(ScoreTable)
ScoreTableComputed ==
  /\ TableTokens >= 18
  /\ \A ntokens \in 1..TableTokens :
       /\ Len(ScoreTable[ntokens]) = ntokens
       /\ \A overlap \in 1..ntokens : ScoreTable[ntokens][overlap] = FloatScore(overlap, ntokens)

\* line 127: score = overlap / math.sqrt(len(doc_tokens))
ScoreOf(overlap, ntokens) == ScoreTable[ntokens][overlap]

\* s1 > s2 and s1 == s2 on two positive doubles
ScoreGT(s1, s2) == \E i \in 1..4 : s1[i] > s2[i] /\ \A j \in 1..(i - 1) : s1[j] = s2[j]
ScoreEQ(s1, s2) == s1 = s2

\* the loop of query (lines 119-128): the scored candidates, in store order
RECURSIVE ScoreDocs(_, _, _)
ScoreDocs(docs, query_tokens, idx) ==
  IF idx > Len(docs) THEN <<>>
  ELSE LET doc == docs[idx]
           text == GetOr(doc, "text", <<>>)
           doc_tokens == IF text = None THEN {} ELSE Tokenize(text)
           overlap == Cardinality(query_tokens \cap doc_tokens)
           rest == ScoreDocs(docs, query_tokens, idx + 1)
       IN IF doc_tokens = {} THEN rest
          ELSE IF overlap = 0 THEN rest
          ELSE <<[score |-> ScoreOf(overlap, Cardinality(doc_tokens)),
                  idx |-> idx - 1, doc |-> doc]>> \o rest

\* list.sort(key=score, reverse=True) is stable: an element goes after every
\* element whose score is greater or equal
RECURSIVE InsertDesc(_, _)
\* (a sort that puts an element before its equals: ties in reverse order)
InsertDescUnstable(sorted, e) ==
  IF sorted = <<>> THEN <<e>>
  ELSE IF ~ScoreGT(sorted[1].score, e.score) THEN <<e>> \o sorted
  ELSE <<sorted[1]>> \o InsertDesc(Tail(sorted), e)

InsertDesc(sorted, e) ==
  IF sorted = <<>> THEN <<e>>
  ELSE IF ScoreGT(e.score, sorted[1].score) THEN <<e>> \o sorted
  ELSE <<sorted[1]>> \o InsertDesc(Tail(sorted), e)

RECURSIVE SortDesc(_, _)
SortDesc(scored, acc) ==
  IF scored = <<>> THEN acc
  ELSE SortDesc(Tail(scored), InsertDesc(acc, scored[1]))

\* InMemoryVectorStore.query
InMemoryQuery(docs, query, top_k) ==
  IF query = <<>> THEN <<>>
  ELSE LET query_tokens == Tokenize(query)
       IN IF query_tokens = {} THEN <<>>
          ELSE LET sorted == SortDesc(ScoreDocs(docs, query_tokens, 1), <<>>)
                   top == Slice(sorted, top_k)
               IN [i \in 1..Len(top) |->
                     [id |-> <<"inmemory-", top[i].idx>>, score |-> top[i].score, payload |-> top[i].doc]]

\* InMemoryVectorStore.upsert_documents: the documents that are appended
RECURSIVE Storable(_)
Storable(batch) ==
  IF batch = <<>> THEN <<>>
  ELSE (IF Truthy(Get(batch[1], "text")) THEN <<batch[1]>> ELSE <<>>)
       \o Storable(Tail(batch))

\* (a count of every record of the batch, the skipped ones too)
UpsertCountAll(batch) == Len(batch)

\* InMemoryVectorStore.upsert_documents: count, one more with every append
UpsertCount(batch) == Len(Storable(batch))

\* one turn of the loop of query (lines 119-128), on the document at the
\* 0-based position idx: the scored candidate, if the document is one
ScoreOne(doc, query_tokens, idx) ==
  LET text == GetOr(doc, "text", <<>>)
      doc_tokens == IF text = None THEN {} ELSE Tokenize(text)
      overlap == Cardinality(query_tokens \cap doc_tokens)
  IN IF doc_tokens = {} \/ overlap = 0 THEN <<>>
     ELSE <<[score |-> ScoreOf(overlap, Cardinality(doc_tokens)), idx |-> idx, doc |-> doc]>>

\* (a loop that stops one element before the end of the list)
ScanEndsEarly(docs, idx) == idx + 1 >= Len(docs)

\* the for statement of line 119 ends when the list, as it is at that
\* moment, has no element at the iterator's position
ScanEnds(docs, idx) == idx >= Len(docs)

\* lines 129-139: the sorted candidates cut at top_k, as hits
HitsOf(scored, top_k) ==
  LET top == Slice(SortDesc(scored, <<>>), top_k)
  IN [i \in 1..Len(top) |->
        [id |-> <<"inmemory-", top[i].idx>>, score |-> top[i].score, payload |-> top[i].doc]]

\* ------------------------------------------------------------ inputs
Txt_a == <<"a">>
Txt_Ab == <<"A", " ", "b">>
Txt_abcd == <<"a", "-", "b", " ", "c", " ", "d">>
Txt_b == <<"b">>
Txt_dash == <<"-", "-">>
Txt_azz == <<"a", " ", "z", "z">>
Txt_abc == <<"a", " ", "b", " ", "c">>
\* eighteen words, of which a, b and c
Txt_18 ==
  <<"a", " ", "b", " ", "c", " ", "d", " ", "e", " ", "f", " ", "g", " ", "h", " ", "i", " ",
    "j", " ", "k", " ", "l", " ", "m", " ", "n", " ", "o", " ", "p", " ", "q", " ", "r">>

TextPool == {Txt_a, Txt_Ab, Txt_abcd, Txt_dash, Txt_azz, Txt_18, <<>>}
DocPool == {[text |-> t] : t \in TextPool} \cup {[doc_id |-> <<"d">>]}
BatchPool ==
  {<<>>} \cup {<<d>> : d \in DocPool}
  \cup {<<d, e>> : d \in DocPool, e \in {[text |-> Txt_a], [text |-> <<>>]}}
QueryPool == {<<>>, Txt_a, <<"B">>, Txt_dash, Txt_abc}
TopKPool == 0..MaxTopK

\* the calls request threads make on the store at the same time
ConcBatchPool ==
  { <<[text |-> Txt_a]>>, <<[text |-> Txt_Ab], [text |-> <<>>]>>,
    <<[text |-> Txt_b], [text |-> Txt_a]>> }
ConcQueryPool == {<<>>, Txt_a, Txt_dash}
ConcTopKPool == {1, MaxTopK}

\* ------------------------------------------------------ ProductCatalog

\* q in s, for two strings
Contains(s, q) ==
  \E i \in 0..(Len(s) - Len(q)) : SubSeq(s, i + 1, i + Len(q)) = q

\* any(x.lower() == v for x in xs)
AnyLowerEq(xs, v) == \E i \in 1..Len(xs) : Lower(xs[i]) = v

\* the test ProductCatalog.search applies to one product, for the keyword
\* arguments given in f (an argument left out is None)
SearchKeeps(p, f) ==
  /\ Truthy(Get(f, "brand")) => Lower(p.brand) = Lower(f.brand)
  /\ Truthy(Get(f, "category")) => Lower(p.category) = Lower(f.category)
  /\ Truthy(Get(f, "tag")) => AnyLowerEq(p.tags, Lower(f.tag))
  /\ Truthy(Get(f, "size")) => AnyLowerEq(p.sizes, Lower(f.size))
  /\ Truthy(Get(f, "query")) =>
       \/ Contains(Lower(p.name), Lower(f.query))
       \/ Contains(Lower(p.description), Lower(f.query))
       \/ Contains(Lower(p.materials), Lower(f.query))
       \/ Contains(Lower(p.care), Lower(f.query))
       \/ Contains(Lower(p.brand), Lower(f.query))

\* ProductCatalog.search(**f): the products kept, in catalog order
Search(products, f) ==
  Filter(products, {products[i] : i \in {j \in 1..Len(products) : SearchKeeps(products[j], f)}})

\* ProductCatalog has the methods all, get and search and no other: the call
\* self._product_catalog.lookup_from_text(query) raises AttributeError
LookupFromText(products, query) == [raised |-> TRUE, error |-> "AttributeError"]

\* ---------------------------------------------------------- RAGPipeline
MaxProductItems == 3
DefaultTopK == 5
MaxSnippets == 2

Sentinel == <<"I could not find supporting information for that question.">>
Preamble ==
  <<"I'm operating without an LLM backend right now, but here is the most relevant information I found:\n\n">>

\* RAGPipeline._format_product_summary
FormatProductSummary(p) ==
  <<"Brand: ">> \o p.brand \o <<"\nCategory: ">> \o p.category
  \o <<"\nMaterials: ">> \o p.materials \o <<"\nCare: ">> \o p.care
  \o <<"\nSizes: ">> \o (IF p.sizes /= <<>> THEN Join(p.sizes, <<", ">>) ELSE <<"N/A">>)
  \o <<"\nTags: ">> \o (IF p.tags /= <<>> THEN Join(p.tags, <<", ">>) ELSE <<"None">>)

\* the ContextItem built for one catalog match (lines 175-185)
ProductItem(p) ==
  [type |-> "product", id |-> p.product_id, title |-> p.name,
   text |-> FormatProductSummary(p), score |-> None,
   source |-> "product_catalog", metadata |-> p]

\* {k: v for k, v in (product_filters or {}).items() if v}
NonEmptyFilters(product_filters) ==
  [k \in {x \in DOMAIN product_filters : Truthy(product_filters[x])} |->
     product_filters[k]]

\* (a cap off by one)
CapMatchesLoose(matches) == Slice(matches, MaxProductItems + 1)

\* matches[:3]
CapMatches(matches) == Slice(matches, MaxProductItems)

\* RAGPipeline._build_product_context: what it returns or raises, and the
\* catalog lookup the matches came from
BuildProductContext(catalog, query, product_filters) ==
  IF catalog = NoValue THEN [raised |-> FALSE, items |-> <<>>, path |-> "none"]
  ELSE LET filters == NonEmptyFilters(product_filters)
           found == IF DOMAIN filters /= {} THEN Search(catalog[1], filters) ELSE <<>>
       IN IF found /= <<>>
          THEN [raised |-> FALSE, path |-> "filter",
                items |-> [i \in 1..Len(CapMatches(found)) |-> ProductItem(CapMatches(found)[i])]]
          ELSE LET looked == LookupFromText(catalog[1], query)
               IN IF looked.raised
                  THEN [raised |-> TRUE, error |-> looked.error, items |-> <<>>,
                        path |-> "freetext"]
                  ELSE [raised |-> FALSE, path |-> "freetext",
                        items |-> [i \in 1..Len(CapMatches(looked.products)) |->
                                     ProductItem(CapMatches(looked.products)[i])]]

\* the ContextItem built for one store hit (lines 146-157)
DocumentItem(hit) ==
  LET metadata == GetOr(hit, "payload", <<>>)
  IN [type |-> "document", id |-> Get(hit, "id"),
      title |-> IF Truthy(Get(metadata, "title")) THEN metadata.title
                ELSE Get(metadata, "doc_id"),
      text |-> GetOr(metadata, "text", <<>>), score |-> Get(hit, "score"),
      source |-> "vector_store",
      metadata |-> [k \in DOMAIN metadata \ {"text"} |-> metadata[k]]]

\* RAGPipeline._format_document_payloads
FormatDocumentPayloads(payloads) ==
  [i \in 1..Len(payloads) |-> DocumentItem(payloads[i])]

\* [item.get("text", "") for item in context_docs if item.get("text")]
RECURSIVE Snippets(_)
Snippets(context_docs) ==
  IF context_docs = <<>> THEN <<>>
  ELSE (IF Truthy(Get(context_docs[1], "text")) THEN <<context_docs[1].text>> ELSE <<>>)
       \o Snippets(Tail(context_docs))

\* (a preview of the first three snippets)
FallbackAnswerThree(context_docs) ==
  IF Snippets(context_docs) = <<>> THEN Sentinel
  ELSE Preamble \o Join(Slice(Snippets(context_docs), MaxSnippets + 1), <<"\n\n">>)

\* RAGPipeline._fallback_answer
FallbackAnswer(context_docs) ==
  IF Snippets(context_docs) = <<>> THEN Sentinel
  ELSE Preamble \o Join(Slice(Snippets(context_docs), MaxSnippets), <<"\n\n">>)

\* the segments of _render_prompt_context (lines 230-236)
RECURSIVE Segments(_)
Segments(context_docs) ==
  IF context_docs = <<>> THEN <<>>
  ELSE LET item == context_docs[1]
           text == GetOr(item, "text", <<>>)
           title == IF Truthy(Get(item, "title")) THEN item.title
                    ELSE <<GetOr(item, "type", "Context")>>
       IN (IF ~Truthy(text) THEN <<>> ELSE <<title \o <<":\n">> \o text>>)
          \o Segments(Tail(context_docs))

\* RAGPipeline._render_prompt_context
RenderPromptContext(context_docs) == Join(Segments(context_docs), <<"\n\n">>)

\* the test of line 204 negated: a model client can be built
LLMConfigured(c) == c.langchain /\ Truthy(c.api_key)

\* (a generate_answer that catches a failed model call and substitutes the fallback)
GenerateAnswerCatching(c, question, context_docs, llm) ==
  IF RenderPromptContext(context_docs) = <<>>
  THEN [raised |-> FALSE, answer |-> Sentinel, built |-> 0, invoked |-> 0, failed |-> 0, spans |-> <<>>]
  ELSE IF ~LLMConfigured(c)
  THEN [raised |-> FALSE, answer |-> FallbackAnswer(context_docs), built |-> 0,
        invoked |-> 0, failed |-> 0, spans |-> <<>>]
  ELSE IF llm.ok
  THEN [raised |-> FALSE, answer |-> llm.content, built |-> 1, invoked |-> 1, failed |-> 0,
        spans |-> <<"llm_generate">>]
  ELSE [raised |-> FALSE, answer |-> FallbackAnswer(context_docs), built |-> 1,
        invoked |-> 1, failed |-> 1, spans |-> <<"llm_generate">>]

\* (a generate_answer that asks the model before looking at the configuration)
GenerateAnswerEager(c, question, context_docs, llm) ==
  IF RenderPromptContext(context_docs) = <<>>
  THEN [raised |-> FALSE, answer |-> Sentinel, built |-> 0, invoked |-> 0, failed |-> 0, spans |-> <<>>]
  ELSE IF ~c.langchain
  THEN [raised |-> FALSE, answer |-> FallbackAnswer(context_docs), built |-> 0,
        invoked |-> 0, failed |-> 0, spans |-> <<>>]
  ELSE IF llm.ok
  THEN [raised |-> FALSE, answer |-> llm.content, built |-> 1, invoked |-> 1, failed |-> 0,
        spans |-> <<"llm_generate">>]
  ELSE [raised |-> TRUE, error |-> "LLMError", answer |-> None, built |-> 1,
        invoked |-> 1, failed |-> 1, spans |-> <<"llm_generate">>]

\* (a generate_answer that asks a configured model before looking at the context)
GenerateAnswerModelFirst(c, question, context_docs, llm) ==
  IF LLMConfigured(c)
  THEN IF llm.ok
       THEN [raised |-> FALSE, answer |-> llm.content, built |-> 1, invoked |-> 1,
             failed |-> 0, spans |-> <<"llm_generate">>]
       ELSE [raised |-> TRUE, error |-> "LLMError", answer |-> None, built |-> 1,
             invoked |-> 1, failed |-> 1, spans |-> <<"llm_generate">>]
  ELSE IF RenderPromptContext(context_docs) = <<>>
  THEN [raised |-> FALSE, answer |-> Sentinel, built |-> 0, invoked |-> 0, failed |-> 0, spans |-> <<>>]
  ELSE [raised |-> FALSE, answer |-> FallbackAnswer(context_docs), built |-> 0,
        invoked |-> 0, failed |-> 0, spans |-> <<>>]

\* RAGPipeline.generate_answer, llm being what the model call does when it is
\* made: what is returned or raised, how many clients were built and invoked,
\* and the spans entered
GenerateAnswer(c, question, context_docs, llm) ==
  IF RenderPromptContext(context_docs) = <<>>
  THEN [raised |-> FALSE, answer |-> Sentinel, built |-> 0, invoked |-> 0, failed |-> 0, spans |-> <<>>]
  ELSE IF ~LLMConfigured(c)
  THEN [raised |-> FALSE, answer |-> FallbackAnswer(context_docs), built |-> 0,
        invoked |-> 0, failed |-> 0, spans |-> <<>>]
  ELSE IF llm.ok
  THEN [raised |-> FALSE, answer |-> llm.content, built |-> 1, invoked |-> 1, failed |-> 0,
        spans |-> <<"llm_generate">>]
  ELSE [raised |-> TRUE, error |-> "LLMError", answer |-> None, built |-> 1,
        invoked |-> 1, failed |-> 1, spans |-> <<"llm_generate">>]

\* (a query that asks the remote store whatever the query string is)
WeaviateQueryUnguarded(query, top_k, remote) ==
  IF ~remote.ok THEN [raised |-> TRUE, error |-> "StoreError", called |-> TRUE]
  ELSE [raised |-> FALSE, called |-> TRUE,
        hits |-> [i \in 1..Len(remote.objects) |->
                    [id |-> remote.objects[i].uuid, score |-> remote.objects[i].distance,
                     payload |-> remote.objects[i].properties]]]

\* WeaviateVectorStore.query, remote being what near_text does when it is
\* called: the hits returned, or the error raised
WeaviateQuery(query, top_k, remote) ==
  IF query = <<>> THEN [raised |-> FALSE, hits |-> <<>>, called |-> FALSE]
  ELSE IF ~remote.ok THEN [raised |-> TRUE, error |-> "StoreError", called |-> TRUE]
  ELSE [raised |-> FALSE, called |-> TRUE,
        hits |-> [i \in 1..Len(remote.objects) |->
                    [id |-> remote.objects[i].uuid, score |-> remote.objects[i].distance,
                     payload |-> remote.objects[i].properties]]]

\* line 256 of run: the graph's result holds no answer
NeedsAnswer(result) == "answer" \notin DOMAIN result

\* (documents after products)
FuseProductsFirst(docs, products) == products \o docs

\* retrieve, lines 139-141: the document items, then the product items
Fuse(docs, products) == docs \o products

\* ------------------------------------------------- construction, ingest
\* WeaviateVectorStore.__init__: weaviate being importable or not, connect
\* being what weaviate.connect_to_custom does ("ok", or the exception raised)
ConstructWeaviate(installed, connect) ==
  IF ~installed THEN [raised |-> TRUE, error |-> "VectorStoreNotAvailable"]
  ELSE IF connect /= "ok" THEN [raised |-> TRUE, error |-> connect]
  ELSE [raised |-> FALSE]

\* RAGPipeline.__init__, lines 44-47: the store the pipeline gets
ConstructPipeline(installed, connect) ==
  LET remote == ConstructWeaviate(installed, connect)
  IN IF ~remote.raised THEN [raised |-> FALSE, store |-> "weaviate"]
     ELSE IF remote.error = "VectorStoreNotAvailable"
     THEN [raised |-> FALSE, store |-> "memory"]
     ELSE [raised |-> TRUE, error |-> remote.error]

\* the exception classes that derive from RuntimeError
IsRuntimeError(error) == error \in {"RuntimeError", "VectorStoreNotAvailable"}

\* routes, lines 20-23: the module-level pipeline, None after a RuntimeError;
\* any other exception leaves the import of the module
BootPipeline(installed, connect, settings) ==
  LET built == ConstructPipeline(installed, connect)
  IN IF ~built.raised
     THEN [state |-> "built", chunk_size |-> settings.chunk_size,
           chunk_overlap |-> settings.chunk_overlap]
     ELSE IF IsRuntimeError(built.error) THEN [state |-> "no_pipeline"]
     ELSE [state |-> "crashed", error |-> built.error]

\* RecursiveCharacterTextSplitter.split_text on a text without separator
\* characters: windows of chunk_size characters, each starting chunk_overlap
\* characters before the end of the one before; no chunk for an empty text
RECURSIVE SplitFrom(_, _, _, _)
SplitFrom(text, start, size, overlap) ==
  IF start + size > Len(text) THEN <<SubSeq(text, start, Len(text))>>
  ELSE <<SubSeq(text, start, start + size - 1)>> \o
       (IF start + size - 1 >= Len(text) THEN <<>>
        ELSE SplitFrom(text, start + size - overlap, size, overlap))
SplitText(text, size, overlap) ==
  IF text = <<>> THEN <<>> ELSE SplitFrom(text, 1, size, overlap)

\* ingest, line 87: record.get("text") or ""
TextOrEmpty(record) ==
  IF Truthy(Get(record, "text")) THEN record.text ELSE <<>>

\* ingest, lines 88-97: the chunk records of one record; the fields of the
\* record other than text are spread last and win over the three set before
ChunkRecords(record, size, overlap) ==
  LET chunks == SplitText(TextOrEmpty(record), size, overlap)
      base_metadata == [k \in DOMAIN record \ {"text"} |-> record[k]]
  IN [i \in 1..Len(chunks) |->
        [k \in {"text", "doc_id", "section_index"} \cup DOMAIN base_metadata |->
           IF k \in DOMAIN base_metadata THEN base_metadata[k]
           ELSE IF k = "text" THEN chunks[i]
           ELSE IF k = "doc_id" THEN Get(record, "doc_id")
           ELSE i - 1]]

\* Chunker.transform, lines 29-32: the chunk records of one record
TransformRecords(record, size, overlap) ==
  LET chunks == SplitText(GetOr(record, "text", <<>>), size, overlap)
      base == [k \in DOMAIN record \ {"text"} |-> record[k]]
  IN [i \in 1..Len(chunks) |->
        [k \in DOMAIN base \cup {"text", "chunk_index"} |->
           IF k = "text" THEN chunks[i]
           ELSE IF k = "chunk_index" THEN i - 1
           ELSE base[k]]]

RECURSIVE Flatten(_)
Flatten(seqs) == IF seqs = <<>> THEN <<>> ELSE seqs[1] \o Flatten(Tail(seqs))

\* the settings a process may run with (chunk_overlap < chunk_size)
SettingsPool ==
  { [chunk_size |-> 2, chunk_overlap |-> 0], [chunk_size |-> 2, chunk_overlap |-> 1],
    [chunk_size |-> 3, chunk_overlap |-> 1] }
\* the settings the service is started with
BootSettingsPool == {[chunk_size |-> 2, chunk_overlap |-> 1]}
DefaultChunkSize == 512
DefaultChunkOverlap == 50

\* what connect_to_custom may do
ConnectOutcomes == {"ok", "WeaviateConnectionError", "RuntimeError"}

\* records handed to ingest: with and without text, with a section_index of
\* their own
Rec_long == [text |-> <<"a", "b", "c", "d", "e">>, doc_id |-> <<"d">>, title |-> <<"T">>]
Rec_short == [text |-> <<"a", "b">>]
Rec_indexed == [text |-> <<"a", "b", "c">>, section_index |-> 7]
Rec_notext == [doc_id |-> <<"e">>]
RecordPool == {Rec_long, Rec_short, Rec_indexed, Rec_notext}
RecordsPool ==
  {<<>>} \cup {<<r>> : r \in RecordPool} \cup {<<Rec_indexed, Rec_short>>, <<Rec_short, Rec_notext>>}

\* the queries put to the store of the service
ServiceQueryPool == {<<>>, <<"a", "b">>}

\* ------------------------------------------------------ pipeline inputs
Product(id, brand, category, sizes, tags) ==
  [product_id |-> id, name |-> <<"n">> \o id, brand |-> brand, category |-> category,
   materials |-> <<"m">>, description |-> <<"d">>, care |-> <<"c">>, price |-> 1,
   sizes |-> sizes, color |-> None, tags |-> tags]

SampleCatalog ==
  << Product(<<"1">>, <<"A">>, <<"c">>, <<>>, <<>>),
     Product(<<"2">>, <<"a">>, <<"d">>, <<<<"a">>, <<"B">>>>, <<<<"d">>>>),
     Product(<<"3">>, <<"A">>, <<"d">>, <<<<"b">>>>, <<>>),
     Product(<<"4">>, <<"a">>, <<"d">>, <<>>, <<<<"c">>, <<"d">>>>),
     Product(<<"5">>, <<"b">>, <<"c">>, <<<<"a">>>>, <<>>) >>

CatalogPool == {NoValue, <<SampleCatalog>>}

SampleStore ==
  << [text |-> Txt_a, title |-> <<"T">>], [text |-> Txt_Ab, doc_id |-> <<"d">>],
     [text |-> Txt_b], [text |-> Txt_dash] >>
StorePool == {<<>>, SampleStore}

\* what the remote store holds for any query, nearest first: an object
\* without text property among them
RemoteObjects ==
  << [uuid |-> <<"u1">>, distance |-> 1, properties |-> [text |-> Txt_Ab, title |-> <<"T">>]],
     [uuid |-> <<"u2">>, distance |-> 2, properties |-> [doc_id |-> <<"d">>]],
     [uuid |-> <<"u3">>, distance |-> 3, properties |-> [text |-> Txt_b]] >>

\* near_text(limit=top_k) answers with the first top_k objects, or fails
RemoteOutcomes(top_k) ==
  {[ok |-> FALSE], [ok |-> TRUE, objects |-> Slice(RemoteObjects, Max(top_k, 0))],
   [ok |-> TRUE, objects |-> Slice(<<RemoteObjects[2]>>, Max(top_k, 0))]}

\* the model call answers with some text, or fails
LLMOutcomes ==
  {[ok |-> FALSE], [ok |-> TRUE, content |-> <<"generated">>]}

QuestionPool == {<<>>, Txt_a, <<"a", " ", "b">>, <<"c">>}
RunTopKPool == {NoValue} \cup {<<k>> : k \in 0..MaxTopK}
NoFilters == [brand |-> None, category |-> None, tag |-> None, size |-> None]
FiltersPool ==
  { NoValue, <<NoFilters>>,
    <<[NoFilters EXCEPT !.brand = <<>>]>>,
    <<[NoFilters EXCEPT !.brand = <<"A">>]>>,
    <<[NoFilters EXCEPT !.category = <<"C">>]>>,
    <<[NoFilters EXCEPT !.brand = <<"a">>, !.size = <<"b">>]>>,
    <<[NoFilters EXCEPT !.tag = <<"d">>]>>,
    <<[brand |-> <<"a">>, category |-> None, tag |-> None, size |-> None,
       query |-> <<"N", "2">>]>>,
    <<[NoFilters EXCEPT !.brand = <<"c">>]>> }
ApiKeyPool == {None, <<>>, <<"k">>}

\* --------------------------------------------------- trace-context layer
Threads == {"t1", "t2"}

\* _tracer: None, or the tracer the provider handed out
NoTracer == "None"
TheTracer == "tracer"

\* format(n, "x"): the hexadecimal digits of a non-negative integer
HexDigits == <<"0", "1", "2", "3", "4", "5", "6", "7",
               "8", "9", "a", "b", "c", "d", "e", "f">>
RECURSIVE ToHex(_)
ToHex(n) ==
  IF n < 16 THEN <<HexDigits[n + 1]>>
  ELSE Append(ToHex(n \div 16), HexDigits[(n % 16) + 1])

RECURSIVE ZeroFill(_, _)
ZeroFill(digits, width) ==
  IF Len(digits) >= width THEN digits ELSE ZeroFill(<<"0">> \o digits, width)

\* f"{int(trace_id):032x}", and uuid.UUID.hex, which is '%032x' % self.int
FormatTraceId(trace_id) == ZeroFill(ToHex(trace_id), 32)

\* the number uuid4() draws for the n-th request of thread t, and the trace id
\* the backend gives the root span of that request: all different
ThreadNo(t) == IF t = "t1" THEN 1 ELSE 2
UuidInt(t, n) == 1048576 + 4096 * n + 171 * ThreadNo(t)
SpanTraceId(t, n) == 256 * n + 13 * ThreadNo(t)

\* uuid4().hex of the n-th request of thread t, and what _extract_trace_id
\* returns for the root span of that request when its context carries the id
LocalIds == [t \in Threads |-> [n \in 0..MaxRequests |-> FormatTraceId(UuidInt(t, n))]]
BackendIds == [t \in Threads |-> [n \in 0..MaxRequests |-> FormatTraceId(SpanTraceId(t, n))]]
LocalId(t, n) == LocalIds[t][n]
BackendId(t, n) == BackendIds[t][n]

\* what get_span_context() may do on the root span of a request: raise,
\* return None, or return a context, whose trace_id is 0 on a span that
\* is not recorded
ContextsOf(trace_id) ==
  {[got |-> "error", trace_id |-> 0], [got |-> "none", trace_id |-> 0],
   [got |-> "context", trace_id |-> trace_id]}
SpanContexts(t, n) == ContextsOf(0) \cup ContextsOf(SpanTraceId(t, n))

\* the trace the backend puts a root span of the n-th request of t in: a span
\* opened while a recorded span is current is its child and belongs to its
\* trace; otherwise the span starts a trace of its own (0: it is not recorded)
TraceOfSpan(t, n, open_spans) ==
  IF open_spans /= <<>> /\ open_spans[Len(open_spans)].kind = "open"
     /\ open_spans[Len(open_spans)].trace /= 0
    THEN {open_spans[Len(open_spans)].trace}
    ELSE {0, SpanTraceId(t, n)}

\* _extract_trace_id
ExtractTraceId(context) ==
  IF context.got /= "context" THEN None
  ELSE IF context.trace_id = 0 THEN None
  ELSE FormatTraceId(context.trace_id)

\* the keyword arguments of the span() calls of RAGPipeline (no trace_id)
SpanAttributes(name) ==
  IF name = "llm_generate" THEN [question_length |-> <<"1">>]
  ELSE IF name = "vector_retrieve" THEN [query |-> <<"a">>, top_k |-> <<"5">>]
  ELSE [question |-> <<"a">>, top_k |-> <<"5">>]

\* (a span that reads the trace id from its own attributes only)
ResolveTraceIdFromAttributes(attributes, ambient) == Get(attributes, "trace_id")

\* (one variable for the whole process: every thread reads the same value)
SharedContext(t) == "t1"

\* _trace_id_var is a ContextVar: code running on thread t reads and writes the
\* value held in the context of t
CurrentContext(t) == t

\* span, line 78: span_attributes.get("trace_id") or _trace_id_var.get()
ResolveTraceId(attributes, ambient) ==
  IF Truthy(Get(attributes, "trace_id")) THEN attributes.trace_id ELSE ambient

\* _trace_id_var.set(value) returns a token that keeps the value the variable
\* had; a span() has none
TokenOf(old) == [old_value |-> old]
NoToken == [old_value |-> None]

\* (a reset that puts the variable back to its default)
ResetVarToDefault(token) == None

\* _trace_id_var.reset(token): the variable has the value it had before the set
ResetVar(token) == token.old_value

\* _initialization_attempted after a call of _initialize_tracer in a process
\* where PHOENIX_ENDPOINT is not configured: the guard of line 129 returns,
\* or the flag is set (line 131) and the call returns at line 148
AttemptedAfterInitialize(tr, att) ==
  IF tr /= NoTracer \/ att THEN att ELSE TRUE

\* trace_run, line 107: _extract_trace_id(root_span) or fallback_trace_id
RootTraceId(extracted, fallback) ==
  IF extracted /= None THEN extracted ELSE fallback

\* what register() may do when called (line 155), and when called again
\* without auto_instrument after a TypeError (line 157)
RegisterOutcomes == {"ok", "type_error", "error"}
RetryOutcomes == {"ok", "error"}
\* what any other call into the backend may do
CallOutcomes == {"ok", "error"}

\* the span() calls of one request, in order, and the step that follows
\* entering and leaving each
AfterEnter(name) ==
  IF name = "rag_run" THEN "span_vector_retrieve"
  ELSE IF name = "vector_retrieve" THEN "vector_query"
  ELSE "llm_invoke"
AfterExit(name) ==
  IF name = "vector_retrieve" THEN "generate"
  ELSE IF name = "llm_generate" THEN "exit_rag_run"
  ELSE "exit_trace_run"
SpanPcs == {"span_rag_run", "span_vector_retrieve", "span_llm_generate"}
ExitPcs == {"exit_vector_retrieve", "exit_llm_generate", "exit_rag_run"}
NameOfPc(p) ==
  IF p \in {"span_rag_run", "exit_rag_run"} THEN "rag_run"
  ELSE IF p \in {"span_vector_retrieve", "exit_vector_retrieve"} THEN "vector_retrieve"
  ELSE "llm_generate"

VARIABLES
  documents,     \* InMemoryVectorStore._documents
  lastQuery,     \* the last call on the store, if a query: what it returned
  cfg,           \* RAGPipeline: what __init__ found installed and configured
  pc,            \* RAGPipeline.run: where the call stands
  args,          \* RAGPipeline.run: question, top_k, product_filters
  gstate,        \* the state dict the graph threads through its nodes
  docItems,      \* retrieve: the document items, before the product items
  outcome,       \* RAGPipeline.run: running, returned (with result) or raised
  counters,      \* per call: stage executions, model clients built and invoked
  spanCalls,     \* per call: the names span() was entered with, in order
  productPath,   \* per call: which catalog lookup _build_product_context used
  env,           \* tracing: phoenix imported, PHOENIX_ENDPOINT configured
  tracer,        \* observability._tracer
  attempted,     \* observability._initialization_attempted
  registerBodies,\* how many executions of _initialize_tracer reached register()
  tpc,           \* per thread: where its request stands
  ipc,           \* per thread: where its call of _initialize_tracer stands
  ambient,       \* per thread: _trace_id_var in the thread's context
  handle,        \* per thread: TraceHandle.trace_id of its request
  stack,         \* per thread: the spans entered and not yet left, root first
  resolved,      \* per thread: the trace ids its nested span() calls resolved
  exc,           \* per thread: the exception propagating, if any
  reqs,          \* per thread: requests started
  ended,         \* per thread: how its last request ended
  registered,    \* some call of register() has returned a tracer provider
  enabled,       \* per thread: what its last call of is_enabled() returned
  closedLog,     \* per thread: the span an exception of its request left last, and how
  lastUpsert,    \* the last call on the store, if an upsert: its effect
  work,          \* per thread: its call of the in-memory store under way
  stable,        \* positions of _documents appended by calls that have returned
  boot,          \* routes: where the construction of the pipeline stands
  lastIngest,    \* the last ingest call and what it chunked
  server,        \* the Weaviate server: the collection, creations carried out, objects
  upserting,     \* per thread: where its WeaviateVectorStore.upsert_documents stands
  limiter,       \* rate_limiting._limiter
  clock,         \* time.monotonic()
  lastAllow,     \* the last call of RateLimiter.allow: identity, time, buckets before, result
  allowedLog     \* per identity: the times of the calls allow() let through

restVars == <<server, upserting, limiter, clock, lastAllow, allowedLog>>
storeVars == <<documents, lastQuery, lastUpsert, work, stable, boot, lastIngest>>
pipeVars == <<cfg, pc, args, gstate, docItems, outcome, counters, spanCalls, productPath>>
traceVars == <<env, tracer, attempted, registerBodies, tpc, ipc, ambient, handle, stack,
               resolved, exc, reqs, ended, registered, enabled, closedLog>>
\* the variables of the trace layer but _initialization_attempted
traceRest == <<env, tracer, registerBodies, tpc, ipc, ambient, handle, stack,
               resolved, exc, reqs, ended, registered, enabled, closedLog>>
vars == <<documents, lastQuery, cfg, pc, args, gstate, docItems, outcome, counters,
          spanCalls, productPath, env, tracer, attempted, registerBodies, tpc, ipc,
          ambient, handle, stack, resolved, exc, reqs, ended, registered, enabled,
          closedLog, lastUpsert, work, stable, boot, lastIngest,
         server, upserting, limiter, clock, lastAllow, allowedLog>>

NoQuery == [called |-> FALSE]
NoUpsert == [called |-> FALSE]
NoIngest == [called |-> FALSE]
Idle == [op |-> "idle"]
Built == [state |-> "built", chunk_size |-> DefaultChunkSize,
          chunk_overlap |-> DefaultChunkOverlap]

\* no call of the store under way, every stored document appended by a call
\* that has returned, the pipeline constructed
StoreAtRest ==
  /\ lastUpsert = NoUpsert
  /\ work = [t \in Threads |-> Idle]
  /\ stable = DOMAIN documents
  /\ boot = Built
  /\ lastIngest = NoIngest

\* no span left by an exception yet
NotLeft == [left |-> FALSE]

\* the module before its first use, no request under way
\* no call of the remote store has been made: the server has no collection
NoCall == [at |-> "idle", calls |-> 0, left |-> 0, count |-> 0]
ServerAtRest ==
  /\ server = [exists |-> FALSE, creates |-> 0, objects |-> 0,
               createdWhilePresent |-> FALSE, insertedWhileAbsent |-> FALSE]
  /\ upserting = [t \in {"t1", "t2"} |-> NoCall]

\* no request has reached the limiter: _limiter is None
NoLimiter == [built |-> FALSE]
NoAllow == [called |-> FALSE]
LimiterAtRest ==
  /\ limiter = NoLimiter
  /\ clock = 0
  /\ lastAllow = NoAllow
  /\ allowedLog = <<>>

TraceFresh ==
  /\ tracer = NoTracer
  /\ attempted = FALSE
  /\ registerBodies = 0
  /\ tpc = [t \in Threads |-> "idle"]
  /\ ipc = [t \in Threads |-> "none"]
  /\ ambient = [t \in Threads |-> None]
  /\ handle = [t \in Threads |-> None]
  /\ stack = [t \in Threads |-> <<>>]
  /\ resolved = [t \in Threads |-> {}]
  /\ exc = [t \in Threads |-> "none"]
  /\ reqs = [t \in Threads |-> 0]
  /\ ended = [t \in Threads |-> "none"]
  /\ registered = FALSE
  /\ enabled = [t \in Threads |-> [called |-> FALSE]]
  /\ closedLog = [t \in Threads |-> NotLeft]

\* a process where PHOENIX_ENDPOINT is not configured (phoenix is always
\* installed: the module imports it at lines 14-15, outside any try)
NoTracing == [installed |-> TRUE, endpoint |-> FALSE]

\* InMemoryVectorStore.upsert_documents(batch)
UpsertDocuments(batch) ==
  /\ Len(documents) + Len(Storable(batch)) <= MaxDocs
  /\ documents' = documents \o Storable(batch)
  /\ stable' = DOMAIN documents'
  /\ lastUpsert' = [called |-> TRUE, batch |-> batch, before |-> documents,
                    returned |-> UpsertCount(batch)]
  /\ lastQuery' = NoQuery
  /\ UNCHANGED <<restVars, work, boot, lastIngest, pipeVars, traceVars>>

\* InMemoryVectorStore.query(query, top_k)
QueryStore(query, top_k) ==
  /\ lastQuery' = [called |-> TRUE, query |-> query, top_k |-> top_k,
                   docs |-> documents,
                   hits |-> InMemoryQuery(documents, query, top_k)]
  /\ lastUpsert' = NoUpsert
  /\ UNCHANGED <<restVars, documents, work, stable, boot, lastIngest, pipeVars, traceVars>>

StoreNext ==
  \/ \E batch \in BatchPool : UpsertDocuments(batch)
  \/ \E q \in QueryPool, k \in TopKPool : QueryStore(q, k)

\* ------------------------------ InMemoryVectorStore under request threads
\* Each thread's call advances one turn of its loop at a time; list.append
\* and the list iterator's step are the atomic operations of the list.

\* the documents the upsert of thread t has still to append
ToAppend(t) ==
  IF work[t].op = "upsert"
  THEN Len(Storable(SubSeq(work[t].batch, work[t].i, Len(work[t].batch))))
  ELSE 0

\* thread t calls upsert_documents(batch)
ConcUpsertStart(t, batch) ==
  /\ work[t].op = "idle"
  /\ \A u \in Threads \ {t} :
       Len(documents) + ToAppend(u) + Len(Storable(batch)) <= MaxDocs
  /\ work' = [work EXCEPT ![t] = [op |-> "upsert", batch |-> batch, i |-> 1, count |-> 0,
                                  added |-> {}]]
  /\ UNCHANGED <<restVars, documents, lastQuery, lastUpsert, stable, boot, lastIngest, pipeVars, traceVars>>

\* upsert_documents, lines 104-109: one turn of the loop
ConcUpsertStep(t) ==
  /\ work[t].op = "upsert"
  /\ work[t].i <= Len(work[t].batch)
  /\ LET doc == work[t].batch[work[t].i]
     IN IF ~Truthy(Get(doc, "text"))
        THEN /\ work' = [work EXCEPT ![t].i = @ + 1]
             /\ UNCHANGED documents
        ELSE /\ documents' = Append(documents, doc)
             /\ work' = [work EXCEPT ![t].i = @ + 1, ![t].count = @ + 1,
                                     ![t].added = @ \cup {Len(documents) + 1}]
  /\ UNCHANGED <<restVars, lastQuery, lastUpsert, stable, boot, lastIngest, pipeVars, traceVars>>

\* upsert_documents, line 110: the call returns its count
ConcUpsertReturn(t) ==
  /\ work[t].op = "upsert"
  /\ work[t].i > Len(work[t].batch)
  /\ stable' = stable \cup work[t].added
  /\ work' = [work EXCEPT ![t] = Idle]
  /\ UNCHANGED <<restVars, documents, lastQuery, lastUpsert, boot, lastIngest, pipeVars, traceVars>>

\* thread t calls query(query, top_k): lines 113-118
ConcQueryStart(t, query, top_k) ==
  /\ work[t].op = "idle"
  /\ work' = [work EXCEPT ![t] =
                IF query = <<>> \/ Tokenize(query) = {}
                THEN [op |-> "queried", query |-> query, top_k |-> top_k, scanned |-> FALSE,
                      must |-> stable, scored |-> <<>>, hits |-> <<>>]
                ELSE [op |-> "query", query |-> query, top_k |-> top_k, idx |-> 0,
                      must |-> stable, scored |-> <<>>]]
  /\ UNCHANGED <<restVars, documents, lastQuery, lastUpsert, stable, boot, lastIngest, pipeVars, traceVars>>

\* query, lines 119-139: one turn of the loop, or after the last one the
\* sort and the hits
ConcQueryStep(t) ==
  /\ work[t].op = "query"
  /\ work' = [work EXCEPT ![t] =
                IF ScanEnds(documents, work[t].idx)
                THEN [op |-> "queried", query |-> work[t].query, top_k |-> work[t].top_k,
                      scanned |-> TRUE, must |-> work[t].must, scored |-> work[t].scored,
                      hits |-> HitsOf(work[t].scored, work[t].top_k)]
                ELSE [work[t] EXCEPT
                        !.scored = @ \o ScoreOne(documents[work[t].idx + 1],
                                                 Tokenize(work[t].query), work[t].idx),
                        !.idx = @ + 1]]
  /\ UNCHANGED <<restVars, documents, lastQuery, lastUpsert, stable, boot, lastIngest, pipeVars, traceVars>>

\* the caller of query has taken the hits
ConcQueryReturn(t) ==
  /\ work[t].op = "queried"
  /\ work' = [work EXCEPT ![t] = Idle]
  /\ UNCHANGED <<restVars, documents, lastQuery, lastUpsert, stable, boot, lastIngest, pipeVars, traceVars>>

ConcNext ==
  \/ \E t \in Threads, batch \in ConcBatchPool : ConcUpsertStart(t, batch)
  \/ \E t \in Threads : ConcUpsertStep(t)
  \/ \E t \in Threads : ConcUpsertReturn(t)
  \/ \E t \in Threads, q \in ConcQueryPool, k \in ConcTopKPool : ConcQueryStart(t, q, k)
  \/ \E t \in Threads : ConcQueryStep(t)
  \/ \E t \in Threads : ConcQueryReturn(t)


\* ---------------------------------------------------------- RAGPipeline
Running == [kind |-> "running"]
NoArgs == [question |-> <<>>, top_k |-> NoValue, product_filters |-> NoValue]
\* StateGraph(dict), line 105: how the compiled graph applies the dict a
\* node returns to its state. The library is not part of the repository and
\* the schema dict declares no keys: a graph that keeps one channel for the
\* whole state replaces it by the update, a graph that keeps one channel per
\* key merges the update into it.
GraphStateModes == {"merge", "replace"}
ApplyUpdate(mode, state, update) ==
  IF mode = "replace" THEN update
  ELSE [k \in DOMAIN state \cup DOMAIN update |->
          IF k \in DOMAIN update THEN update[k] ELSE state[k]]

\* retrieve, generate_node: entries of the two node functions; generate: calls
\* of generate_answer by the generate node; built, invoked, failed: model
\* clients built, model calls made, model calls that failed
ZeroCounters == [retrieve |-> 0, generate_node |-> 0, generate |-> 0, built |-> 0,
                 invoked |-> 0, failed |-> 0]

\* the state of the pipeline between two calls of run
PipeIdle ==
  /\ cfg \in [langgraph : BOOLEAN, graph_state : GraphStateModes, langchain : BOOLEAN,
              api_key : ApiKeyPool, catalog : CatalogPool, store : {"memory", "weaviate"}]
  /\ pc = "idle"
  /\ args = NoArgs
  /\ gstate = <<>>
  /\ docItems = <<>>
  /\ outcome = [kind |-> "none"]
  /\ counters = ZeroCounters
  /\ spanCalls = <<>>
  /\ productPath = "none"

\* RAGPipeline.__init__ with the store already holding what was ingested
PipeInit ==
  /\ PipeIdle
  /\ TraceFresh
  /\ ServerAtRest
  /\ LimiterAtRest
  /\ env = NoTracing
  /\ documents \in StorePool
  /\ (cfg.store = "weaviate" => documents = <<>>)
  /\ lastQuery = NoQuery
  /\ StoreAtRest

\* run is called
RunCall(question, top_k, product_filters) ==
  /\ pc = "idle"
  /\ pc' = "build_graph"
  /\ args' = [question |-> question, top_k |-> top_k, product_filters |-> product_filters]
  /\ gstate' = <<>>
  /\ docItems' = <<>>
  /\ outcome' = Running
  /\ counters' = ZeroCounters
  /\ spanCalls' = <<>>
  /\ productPath' = "none"
  /\ UNCHANGED <<restVars, traceVars, storeVars, cfg>>

\* run, line 250: the product_filters entry of the initial state
StateFilters == IF args.product_filters = NoValue THEN <<>> ELSE args.product_filters[1]

\* run, lines 247-253: _build_graph, the initial state, span("rag_run")
BuildGraph ==
  /\ pc = "build_graph"
  /\ IF ~cfg.langgraph
     THEN /\ pc' = "idle"
          /\ outcome' = [kind |-> "raised", error |-> "RuntimeError"]
          /\ UNCHANGED <<gstate, spanCalls, attempted>>
     ELSE /\ pc' = "retrieve_documents"
          /\ attempted' = AttemptedAfterInitialize(tracer, attempted)
          /\ gstate' = [question |-> args.question,
                        product_filters |-> StateFilters,
                        top_k |-> IF args.top_k /= NoValue THEN args.top_k[1]
                                  ELSE DefaultTopK]
          /\ spanCalls' = Append(spanCalls, "rag_run")
          /\ UNCHANGED outcome
  /\ UNCHANGED <<restVars, traceRest, storeVars, cfg, args, docItems, counters, productPath>>

\* the top_k the retrieve node passes on (lines 110-112)
NodeTopK == IF "top_k" \in DOMAIN gstate THEN gstate.top_k ELSE DefaultTopK

\* node retrieve, RAGPipeline.retrieve lines 136-139: the store is queried
\* inside span("vector_retrieve") and the hits become document items
RetrieveDocuments ==
  /\ pc = "retrieve_documents"
  /\ \E remote \in RemoteOutcomes(NodeTopK) :
       LET got == IF cfg.store = "memory"
                  THEN [raised |-> FALSE,
                        hits |-> InMemoryQuery(documents, gstate.question, NodeTopK)]
                  ELSE WeaviateQuery(gstate.question, NodeTopK, remote)
       IN IF got.raised
          THEN /\ pc' = "idle"
               /\ outcome' = [kind |-> "raised", error |-> got.error]
               /\ UNCHANGED docItems
          ELSE /\ pc' = "retrieve_products"
               /\ docItems' = FormatDocumentPayloads(got.hits)
               /\ UNCHANGED outcome
  /\ spanCalls' = Append(spanCalls, "vector_retrieve")
  /\ counters' = [counters EXCEPT !.retrieve = @ + 1]
  /\ UNCHANGED <<restVars, traceVars, storeVars, cfg, args, gstate, productPath>>

\* node retrieve, RAGPipeline.retrieve lines 140-141: the product items are
\* appended and the node's update {"context": results} enters the state
RetrieveProducts ==
  /\ pc = "retrieve_products"
  /\ LET built == BuildProductContext(cfg.catalog, gstate.question, gstate.product_filters)
     IN /\ productPath' = built.path
        /\ IF built.raised
           THEN /\ pc' = "idle"
                /\ outcome' = [kind |-> "raised", error |-> built.error]
                /\ UNCHANGED gstate
           ELSE /\ pc' = "generate"
                /\ gstate' = ApplyUpdate(cfg.graph_state, gstate,
                                         [context |-> Fuse(docItems, built.items)])
                /\ UNCHANGED outcome
  /\ UNCHANGED <<restVars, traceVars, storeVars, cfg, args, docItems, counters, spanCalls>>

\* node generate, lines 116-119: state["question"] raises KeyError when the
\* state no longer holds the question, before generate_answer is called;
\* otherwise generate_answer runs on the state's context and the node's
\* update {"answer": ...} enters the state
Generate ==
  /\ pc = "generate"
  /\ IF "question" \notin DOMAIN gstate
     THEN /\ pc' = "idle"
          /\ outcome' = [kind |-> "raised", error |-> "KeyError"]
          /\ counters' = [counters EXCEPT !.generate_node = @ + 1]
          /\ UNCHANGED <<gstate, spanCalls>>
     ELSE \E llm \in LLMOutcomes :
            LET made == GenerateAnswer(cfg, gstate.question, GetOr(gstate, "context", <<>>), llm)
            IN /\ counters' = [counters EXCEPT !.generate_node = @ + 1,
                                               !.generate = @ + 1,
                                               !.built = @ + made.built,
                                               !.invoked = @ + made.invoked,
                                               !.failed = @ + made.failed]
               /\ spanCalls' = spanCalls \o made.spans
               /\ IF made.raised
                  THEN /\ pc' = "idle"
                       /\ outcome' = [kind |-> "raised", error |-> made.error]
                       /\ UNCHANGED gstate
                  ELSE /\ pc' = "finish"
                       /\ gstate' = ApplyUpdate(cfg.graph_state, gstate,
                                                [answer |-> made.answer])
                       /\ UNCHANGED outcome
  /\ UNCHANGED <<restVars, traceVars, storeVars, cfg, args, docItems, productPath>>

\* run, lines 255-258: the graph's final state is the result; a missing
\* context becomes [], a missing answer is generated
Finish ==
  /\ pc = "finish"
  /\ \E llm \in LLMOutcomes :
       LET result == [k \in DOMAIN gstate \cup {"context"} |->
                        IF k \in DOMAIN gstate THEN gstate[k] ELSE <<>>]
       IN IF NeedsAnswer(result)
          THEN LET made == GenerateAnswer(cfg, args.question, result.context, llm)
               IN /\ counters' = [counters EXCEPT !.built = @ + made.built,
                                                  !.invoked = @ + made.invoked,
                                          !.failed = @ + made.failed]
                  /\ spanCalls' = spanCalls \o made.spans
                  /\ outcome' =
                       IF made.raised THEN [kind |-> "raised", error |-> made.error]
                       ELSE [kind |-> "returned",
                             result |-> [k \in DOMAIN result \cup {"answer"} |->
                                           IF k = "answer" THEN made.answer ELSE result[k]]]
          ELSE /\ outcome' = [kind |-> "returned", result |-> result]
               /\ UNCHANGED <<counters, spanCalls>>
  /\ pc' = "idle"
  /\ UNCHANGED <<restVars, traceVars, storeVars, cfg, args, gstate, docItems, productPath>>

PipeNext ==
  \/ \E q \in QuestionPool, k \in RunTopKPool, f \in FiltersPool : RunCall(q, k, f)
  \/ BuildGraph
  \/ RetrieveDocuments
  \/ RetrieveProducts
  \/ Generate
  \/ Finish


\* --------------------------------------------------- trace-context layer
\* query_pipeline is called on thread t: trace_run starts with _initialize_tracer
StartRequest(t) ==
  /\ tpc[t] = "idle"
  /\ reqs[t] < MaxRequests
  /\ tpc' = [tpc EXCEPT ![t] = "trace_run"]
  /\ ipc' = [ipc EXCEPT ![t] = "check"]
  /\ reqs' = [reqs EXCEPT ![t] = @ + 1]
  /\ handle' = [handle EXCEPT ![t] = None]
  /\ resolved' = [resolved EXCEPT ![t] = {}]
  /\ exc' = [exc EXCEPT ![t] = "none"]
  /\ ended' = [ended EXCEPT ![t] = "running"]
  /\ closedLog' = [closedLog EXCEPT ![t] = NotLeft]
  /\ UNCHANGED <<restVars, storeVars, pipeVars, registered, enabled, env, tracer, attempted, registerBodies, ambient, stack>>

\* _initialize_tracer, lines 129-130: the guard
InitCheck(t) ==
  /\ ipc[t] = "check"
  /\ ipc' = [ipc EXCEPT ![t] = IF tracer /= NoTracer \/ attempted THEN "none" ELSE "flag"]
  /\ UNCHANGED <<restVars, storeVars, pipeVars, registered, enabled, closedLog, env, tracer, attempted, registerBodies, tpc, ambient, handle, stack,
                 resolved, exc, reqs, ended>>

\* _initialize_tracer, lines 131-149: the flag is set; without phoenix (which the imports of lines 14-15 rule out) or
\* without endpoint the call returns
InitFlag(t) ==
  /\ ipc[t] = "flag"
  /\ attempted' = TRUE
  /\ ipc' = [ipc EXCEPT ![t] = IF env.installed /\ env.endpoint THEN "register" ELSE "none"]
  /\ UNCHANGED <<restVars, storeVars, pipeVars, registered, enabled, closedLog, env, tracer, registerBodies, tpc, ambient, handle, stack, resolved, exc,
                 reqs, ended>>

\* how lines 154-160 end: with a provider, by returning, or by raising (an
\* exception raised in the handler of TypeError is not caught by the
\* except clause after it)
RegisterEnds(first, retry) ==
  IF first = "ok" THEN "provider"
  ELSE IF first = "error" THEN "return"
  ELSE IF retry = "ok" THEN "provider" ELSE "raise"

\* _initialize_tracer, lines 150-160: launch_app and register
InitRegister(t) ==
  /\ ipc[t] = "register"
  /\ registerBodies' = registerBodies + 1
  /\ \E first \in RegisterOutcomes, retry \in RetryOutcomes :
       LET how == RegisterEnds(first, retry)
       IN /\ ipc' = [ipc EXCEPT ![t] = IF how = "provider" THEN "get_tracer" ELSE "none"]
          /\ exc' = [exc EXCEPT ![t] = IF how = "raise" THEN "tracing" ELSE @]
          /\ registered' = (registered \/ how = "provider")
  /\ UNCHANGED <<restVars, storeVars, pipeVars, enabled, closedLog, env, tracer, attempted, tpc, ambient, handle, stack, resolved, reqs, ended>>

\* _initialize_tracer, lines 161-165: the tracer is stored, or None is
InitGetTracer(t) ==
  /\ ipc[t] = "get_tracer"
  /\ \E got \in CallOutcomes : tracer' = IF got = "ok" THEN TheTracer ELSE NoTracer
  /\ ipc' = [ipc EXCEPT ![t] = "none"]
  /\ UNCHANGED <<restVars, storeVars, pipeVars, registered, enabled, closedLog, env, attempted, registerBodies, tpc, ambient, handle, stack, resolved, exc,
                 reqs, ended>>

\* the request of t ends by the exception e leaving trace_run
Fails(t, e) ==
  /\ tpc' = [tpc EXCEPT ![t] = "idle"]
  /\ ended' = [ended EXCEPT ![t] = IF e = "tracing" THEN "failed_tracing"
                                    ELSE IF e = "cancel" THEN "cancelled"
                                    ELSE "failed_block"]

\* trace_run, lines 98-118, up to the yield of the handle
TraceRunEnter(t) ==
  /\ tpc[t] = "trace_run"
  /\ ipc[t] = "none"
  /\ IF exc[t] = "tracing"
     THEN /\ Fails(t, "tracing")
          /\ UNCHANGED <<ambient, handle, stack, exc>>
     ELSE \E open \in CallOutcomes, context \in SpanContexts(t, reqs[t]),
             setattr \in CallOutcomes :
            LET fallback == LocalId(t, reqs[t])
                trace_id == RootTraceId(ExtractTraceId(context), fallback)
            IN IF tracer = NoTracer
               THEN /\ ambient' = [ambient EXCEPT ![t] = fallback]
                    /\ handle' = [handle EXCEPT ![t] = fallback]
                    /\ stack' = [stack EXCEPT ![t] =
                                   <<[name |-> "rag_query", kind |-> "noop", tag |-> None,
                                      token |-> TokenOf(ambient[t])]>>]
                    /\ tpc' = [tpc EXCEPT ![t] = "build_graph"]
                    /\ UNCHANGED <<exc, ended>>
               ELSE IF open = "error"
               THEN /\ Fails(t, "tracing")
                    /\ exc' = [exc EXCEPT ![t] = "tracing"]
                    /\ UNCHANGED <<ambient, handle, stack>>
               ELSE /\ ambient' = [ambient EXCEPT ![t] = trace_id]
                    /\ handle' = [handle EXCEPT ![t] = trace_id]
                    /\ stack' = [stack EXCEPT ![t] =
                                   <<[name |-> "rag_query", kind |-> "open",
                                      tag |-> IF setattr = "ok" THEN trace_id ELSE None,
                                      token |-> TokenOf(ambient[t])]>>]
                    /\ tpc' = [tpc EXCEPT ![t] = "build_graph"]
                    /\ UNCHANGED <<exc, ended>>
  /\ UNCHANGED <<restVars, storeVars, pipeVars, registered, enabled, closedLog, env, tracer, attempted, registerBodies, ipc, resolved, reqs>>

\* what a step of the block may do: end, raise an Exception, or be
\* interrupted by a BaseException that is none (a cancellation)
StepOutcomes == {"ok", "error", "cancel"}

\* the exception except Exception catches: not a cancellation
IsException(e) == e \in {"block", "tracing"}

\* the block under trace_run raises e at the current step
BlockRaises(t, e) ==
  /\ exc' = [exc EXCEPT ![t] = e]
  /\ tpc' = [tpc EXCEPT ![t] = "unwind"]

\* RAGPipeline.run, line 247: _build_graph returns the graph or raises; then
\* span("rag_run") is called
RunBuildGraph(t) ==
  /\ tpc[t] = "build_graph"
  /\ \E built \in CallOutcomes :
       IF built = "ok"
       THEN /\ tpc' = [tpc EXCEPT ![t] = "span_rag_run"]
            /\ ipc' = [ipc EXCEPT ![t] = "check"]
            /\ UNCHANGED exc
       ELSE /\ BlockRaises(t, "block")
            /\ UNCHANGED ipc
  /\ UNCHANGED <<restVars, storeVars, pipeVars, registered, enabled, closedLog, env, tracer, attempted, registerBodies, ambient, handle, stack, resolved,
                 reqs, ended>>

\* span, lines 77-88, up to the yield
SpanEnter(t) ==
  /\ tpc[t] \in SpanPcs
  /\ ipc[t] = "none"
  /\ IF exc[t] = "tracing"
     THEN /\ tpc' = [tpc EXCEPT ![t] = "unwind"]
          /\ UNCHANGED <<ipc, stack, resolved, exc>>
     ELSE \E open \in CallOutcomes, setattr \in CallOutcomes :
            LET name == NameOfPc(tpc[t])
                trace_id == ResolveTraceId(SpanAttributes(name), ambient[CurrentContext(t)])
                entered == [name |-> name,
                            kind |-> IF tracer = NoTracer THEN "noop" ELSE "open",
                            tag |-> IF tracer /= NoTracer /\ setattr = "ok" /\ Truthy(trace_id)
                                    THEN trace_id ELSE None,
                            token |-> NoToken]
            IN /\ resolved' = [resolved EXCEPT ![t] = @ \cup {trace_id}]
               /\ IF tracer /= NoTracer /\ open = "error"
                  THEN /\ exc' = [exc EXCEPT ![t] = "tracing"]
                       /\ tpc' = [tpc EXCEPT ![t] = "unwind"]
                       /\ UNCHANGED <<ipc, stack>>
                  ELSE /\ stack' = [stack EXCEPT ![t] = Append(@, entered)]
                       /\ tpc' = [tpc EXCEPT ![t] = AfterEnter(name)]
                       /\ ipc' = [ipc EXCEPT ![t] =
                                    IF AfterEnter(name) \in SpanPcs THEN "check" ELSE @]
                       /\ UNCHANGED exc
  /\ UNCHANGED <<restVars, storeVars, pipeVars, registered, enabled, closedLog, env, tracer, attempted, registerBodies, ambient, handle, reqs, ended>>

\* RAGPipeline.retrieve, line 138: the store answers or raises
VectorQuery(t) ==
  /\ tpc[t] = "vector_query"
  /\ \E queried \in StepOutcomes :
       IF queried = "ok"
       THEN /\ tpc' = [tpc EXCEPT ![t] = "exit_vector_retrieve"]
            /\ UNCHANGED exc
       ELSE BlockRaises(t, IF queried = "cancel" THEN "cancel" ELSE "block")
  /\ UNCHANGED <<restVars, storeVars, pipeVars, registered, enabled, closedLog, env, tracer, attempted, registerBodies, ipc, ambient, handle, stack,
                 resolved, reqs, ended>>

\* span: the block ended normally and the span is left (the with statement
\* of line 84 closes the backend span)
SpanExit(t) ==
  /\ tpc[t] \in ExitPcs
  /\ LET top == stack[t][Len(stack[t])]
     IN /\ stack' = [stack EXCEPT ![t] = SubSeq(@, 1, Len(@) - 1)]
        /\ \E close \in CallOutcomes :
             IF top.kind = "open" /\ close = "error"
             THEN /\ exc' = [exc EXCEPT ![t] = "tracing"]
                  /\ tpc' = [tpc EXCEPT ![t] = "unwind"]
             ELSE /\ tpc' = [tpc EXCEPT ![t] = AfterExit(top.name)]
                  /\ UNCHANGED exc
  /\ UNCHANGED <<restVars, storeVars, pipeVars, registered, enabled, closedLog, env, tracer, attempted, registerBodies, ipc, ambient, handle, resolved,
                 reqs, ended>>

\* the rest of retrieve and generate_answer up to line 213: an error of the
\* block, an answer without the model, or span("llm_generate")
GenerateStage(t) ==
  /\ tpc[t] = "generate"
  /\ \E way \in {"error", "no_model", "model"} :
       IF way = "error"
       THEN /\ BlockRaises(t, "block")
            /\ UNCHANGED ipc
       ELSE /\ tpc' = [tpc EXCEPT ![t] =
                         IF way = "model" THEN "span_llm_generate" ELSE "exit_rag_run"]
            /\ ipc' = [ipc EXCEPT ![t] = IF way = "model" THEN "check" ELSE @]
            /\ UNCHANGED exc
  /\ UNCHANGED <<restVars, storeVars, pipeVars, registered, enabled, closedLog, env, tracer, attempted, registerBodies, ambient, handle, stack, resolved,
                 reqs, ended>>

\* generate_answer, line 214: the model answers or raises
LlmInvoke(t) ==
  /\ tpc[t] = "llm_invoke"
  /\ \E invoked \in StepOutcomes :
       IF invoked = "ok"
       THEN /\ tpc' = [tpc EXCEPT ![t] = "exit_llm_generate"]
            /\ UNCHANGED exc
       ELSE BlockRaises(t, IF invoked = "cancel" THEN "cancel" ELSE "block")
  /\ UNCHANGED <<restVars, storeVars, pipeVars, registered, enabled, closedLog, env, tracer, attempted, registerBodies, ipc, ambient, handle, stack,
                 resolved, reqs, ended>>

\* trace_run: the block ended normally; the ambient id is reset (line 104 or
\* 123) and the root span closed
TraceRunExit(t) ==
  /\ tpc[t] = "exit_trace_run"
  /\ LET root == stack[t][1]
     IN /\ ambient' = [ambient EXCEPT ![t] = ResetVar(root.token)]
        /\ stack' = [stack EXCEPT ![t] = <<>>]
        /\ tpc' = [tpc EXCEPT ![t] = "idle"]
        /\ \E close \in CallOutcomes :
             IF root.kind = "open" /\ close = "error"
             THEN /\ exc' = [exc EXCEPT ![t] = "tracing"]
                  /\ ended' = [ended EXCEPT ![t] = "failed_tracing"]
             ELSE /\ ended' = [ended EXCEPT ![t] = "ok"]
                  /\ UNCHANGED exc
  /\ UNCHANGED <<restVars, storeVars, pipeVars, registered, enabled, closedLog, env, tracer, attempted, registerBodies, ipc, handle, resolved, reqs>>

\* an exception leaves the innermost span entered: span lines 89-91 or
\* trace_run lines 119-123 record it on a backend span, the span is closed,
\* and the exception goes on (or the error of closing does)
Unwind(t) ==
  /\ tpc[t] = "unwind"
  /\ LET top == stack[t][Len(stack[t])]
         last == Len(stack[t]) = 1
     IN /\ stack' = [stack EXCEPT ![t] = SubSeq(@, 1, Len(@) - 1)]
        /\ ambient' = [ambient EXCEPT ![t] = IF last THEN ResetVar(top.token) ELSE @]
        /\ closedLog' = [closedLog EXCEPT ![t] =
                           [left |-> TRUE, kind |-> top.kind, cause |-> exc[t],
                            marked |-> top.kind = "open" /\ IsException(exc[t])]]
        /\ \E close \in CallOutcomes :
             LET e == IF top.kind = "open" /\ close = "error" THEN "tracing" ELSE exc[t]
             IN /\ exc' = [exc EXCEPT ![t] = e]
                /\ IF last THEN Fails(t, e) ELSE UNCHANGED <<tpc, ended>>
  /\ UNCHANGED <<restVars, storeVars, pipeVars, registered, enabled, env, tracer, attempted, registerBodies, ipc, handle, resolved, reqs>>

\* is_enabled is called on thread t: it starts with _initialize_tracer
IsEnabledCall(t) ==
  /\ tpc[t] = "idle"
  /\ reqs[t] < MaxRequests
  /\ tpc' = [tpc EXCEPT ![t] = "is_enabled"]
  /\ ipc' = [ipc EXCEPT ![t] = "check"]
  /\ reqs' = [reqs EXCEPT ![t] = @ + 1]
  /\ exc' = [exc EXCEPT ![t] = "none"]
  /\ UNCHANGED <<restVars, storeVars, pipeVars, registered, enabled, closedLog, env, tracer, attempted,
                 registerBodies, ambient, handle, stack, resolved, ended>>

\* is_enabled, line 70: _tracer is not None, unless _initialize_tracer raised
IsEnabledReturn(t) ==
  /\ tpc[t] = "is_enabled"
  /\ ipc[t] = "none"
  /\ tpc' = [tpc EXCEPT ![t] = "idle"]
  /\ enabled' = [enabled EXCEPT ![t] =
                   IF exc[t] = "tracing"
                   THEN [called |-> TRUE, raised |-> TRUE, value |-> FALSE]
                   ELSE [called |-> TRUE, raised |-> FALSE, value |-> tracer /= NoTracer]]
  /\ UNCHANGED <<restVars, storeVars, pipeVars, registered, closedLog, env, tracer, attempted,
                 registerBodies, ipc, ambient, handle, stack, resolved, exc, reqs, ended>>

TraceNext ==
  \/ \E t \in Threads : StartRequest(t)
  \/ \E t \in Threads : InitCheck(t)
  \/ \E t \in Threads : InitFlag(t)
  \/ \E t \in Threads : InitRegister(t)
  \/ \E t \in Threads : InitGetTracer(t)
  \/ \E t \in Threads : TraceRunEnter(t)
  \/ \E t \in Threads : RunBuildGraph(t)
  \/ \E t \in Threads : SpanEnter(t)
  \/ \E t \in Threads : VectorQuery(t)
  \/ \E t \in Threads : SpanExit(t)
  \/ \E t \in Threads : GenerateStage(t)
  \/ \E t \in Threads : LlmInvoke(t)
  \/ \E t \in Threads : TraceRunExit(t)
  \/ \E t \in Threads : Unwind(t)

\* threads that ask is_enabled, each some times
ProbeNext ==
  \/ \E t \in Threads : IsEnabledCall(t)
  \/ \E t \in Threads : InitCheck(t)
  \/ \E t \in Threads : InitFlag(t)
  \/ \E t \in Threads : InitRegister(t)
  \/ \E t \in Threads : InitGetTracer(t)
  \/ \E t \in Threads : IsEnabledReturn(t)

\* requests on concurrent threads of a process whose store and pipeline rest
TraceInit ==
  /\ env \in [installed : {TRUE}, endpoint : BOOLEAN]
  /\ TraceFresh
  /\ ServerAtRest
  /\ LimiterAtRest
  /\ PipeIdle
  /\ cfg = [langgraph |-> TRUE, graph_state |-> "replace", langchain |-> TRUE, api_key |-> <<"k">>,
            catalog |-> NoValue, store |-> "memory"]
  /\ documents = <<>>
  /\ lastQuery = NoQuery
  /\ StoreAtRest

\* ---------------------------- WeaviateVectorStore under request threads
\* how many documents one call of upsert_documents carries
RemoteBatchSizes == {1, 2}

\* upsert_documents(n documents) is entered on thread t: ensure_collection is
\* about to ask the server
Upserting(t, n) ==
  [upserting EXCEPT ![t] = [at |-> "exists", calls |-> @.calls, left |-> n, count |-> 0]]

\* an error of a server call leaves upsert_documents on thread t: its locals
\* are gone
UpsertRaised(t) ==
  [upserting EXCEPT ![t] = [at |-> "raised", calls |-> @.calls, left |-> 0, count |-> 0]]

\* the documents the calls under way have still to insert
PendingInserts == upserting["t1"].left + upserting["t2"].left

\* upsert_documents is called on the store directly
RemoteUpsertStart(t, n) ==
  /\ upserting[t].at = "idle"
  /\ upserting[t].calls < MaxRequests
  /\ upserting' = [Upserting(t, n) EXCEPT ![t].calls = @ + 1]
  /\ UNCHANGED <<server, limiter, clock, lastAllow, allowedLog,
                 storeVars, pipeVars, traceVars>>

\* ensure_collection, line 60: collections.exists() answers with the server's
\* state of that moment, which decides whether create() is called next, or
\* the call fails and its error leaves upsert_documents
RemoteExists(t) ==
  /\ upserting[t].at = "exists"
  /\ \E answer \in CallOutcomes :
       upserting' = IF answer = "error" THEN UpsertRaised(t)
                    ELSE [upserting EXCEPT ![t].at =
                            IF ~server.exists THEN "create" ELSE "get"]
  /\ UNCHANGED <<server, limiter, clock, lastAllow, allowedLog,
                 storeVars, pipeVars, traceVars>>

\* ensure_collection, line 61: collections.create() is issued, after the
\* answer of exists() and whatever the server holds by now. The server
\* carries the creation out, or the call fails (a server that refuses a
\* collection it already holds, or one that cannot be reached) and
\* its error leaves upsert_documents
RemoteCreate(t) ==
  /\ upserting[t].at = "create"
  /\ \E answer \in CallOutcomes :
       /\ server' = [server EXCEPT !.exists = @ \/ answer = "ok",
                                   !.creates = IF answer = "ok" THEN @ + 1 ELSE @,
                                   !.createdWhilePresent = @ \/ server.exists]
       /\ upserting' = IF answer = "ok" THEN [upserting EXCEPT ![t].at = "get"]
                       ELSE UpsertRaised(t)
  /\ UNCHANGED <<limiter, clock, lastAllow, allowedLog,
                 storeVars, pipeVars, traceVars>>

\* upsert_documents, line 65: collections.get() returns the collection, or
\* fails and its error leaves upsert_documents with nothing inserted
RemoteGet(t) ==
  /\ upserting[t].at = "get"
  /\ \E answer \in CallOutcomes :
       upserting' = IF answer = "ok" THEN [upserting EXCEPT ![t].at = "insert"]
                    ELSE UpsertRaised(t)
  /\ UNCHANGED <<server, limiter, clock, lastAllow, allowedLog,
                 storeVars, pipeVars, traceVars>>

\* one turn of the loop, lines 67-69: collection.data.insert(doc) stores the
\* document and count += 1, or fails and its error leaves upsert_documents
\* with the documents inserted so far kept by the server
RemoteInsert(t) ==
  /\ upserting[t].at = "insert"
  /\ upserting[t].left > 0
  /\ \E answer \in CallOutcomes :
       IF answer = "ok"
       THEN /\ server' = [server EXCEPT !.objects = @ + 1,
                                        !.insertedWhileAbsent = @ \/ ~server.exists]
            /\ upserting' = [upserting EXCEPT ![t].left = @ - 1, ![t].count = @ + 1]
       ELSE /\ upserting' = UpsertRaised(t)
            /\ UNCHANGED server
  /\ UNCHANGED <<limiter, clock, lastAllow, allowedLog,
                 storeVars, pipeVars, traceVars>>

\* the call is over: it returns count, or the error of a server call has
\* left it
RemoteUpsertEnd(t) ==
  /\ \/ upserting[t].at = "insert" /\ upserting[t].left = 0
     \/ upserting[t].at = "raised"
  /\ upserting' = [upserting EXCEPT ![t] = [at |-> "idle", calls |-> @.calls,
                                             left |-> 0, count |-> 0]]
  /\ UNCHANGED <<server, limiter, clock, lastAllow, allowedLog,
                 storeVars, pipeVars, traceVars>>

\* ------------------------------------- construction, ingest and query
\* lastIngest and lastQuery record the most recent call of ingest or transform
\* and of query, whichever of the two came last
\* the import of routes constructs the pipeline
Boot(installed, connect, settings) ==
  /\ boot.state = "unbuilt"
  /\ boot' = BootPipeline(installed, connect, settings)
  /\ cfg' = IF ConstructPipeline(installed, connect).raised THEN cfg
            ELSE [cfg EXCEPT !.store = ConstructPipeline(installed, connect).store]
  /\ UNCHANGED <<restVars, documents, lastQuery, lastUpsert, work, stable, lastIngest, pc, args, gstate,
                 docItems, outcome, counters, spanCalls, productPath, traceVars>>

\* RAGPipeline.ingest(records) on request thread t: the splitter is built,
\* the records are chunked inside span("chunk_documents"), whose first call
\* is _initialize_tracer, and upsert_documents is called with the chunks.
\* Either store is entered here: the in-memory store appends the chunks one
\* turn of its loop at a time in ConcUpsertStep, the remote store makes its
\* server calls in the steps above, and between two of them the other thread
\* and the queries run
Ingest(t, records) ==
  /\ boot.state = "built"
  /\ upserting[t].at = "idle"
  /\ work[t].op = "idle"
  /\ LET perRecord == [r \in 1..Len(records) |->
                         ChunkRecords(records[r], boot.chunk_size, boot.chunk_overlap)]
         chunked_docs == Flatten(perRecord)
     IN IF ~cfg.langchain
        THEN /\ lastIngest' = [called |-> TRUE, via |-> "ingest", records |-> records,
                               raised |-> TRUE, error |-> "RuntimeError"]
             /\ UNCHANGED <<attempted, upserting, work>>
        ELSE IF cfg.store = "memory"
        THEN /\ \A u \in Threads \ {t} :
                  Len(documents) + ToAppend(u) + Len(Storable(chunked_docs)) <= MaxDocs
             /\ attempted' = AttemptedAfterInitialize(tracer, attempted)
             /\ lastIngest' = [called |-> TRUE, via |-> "ingest", records |-> records,
                               raised |-> FALSE, perRecord |-> perRecord]
             /\ work' = [work EXCEPT ![t] = [op |-> "upsert", batch |-> chunked_docs, i |-> 1,
                                             count |-> 0, added |-> {}]]
             /\ UNCHANGED upserting
        ELSE /\ server.objects + PendingInserts + Len(chunked_docs) <= MaxDocs
             /\ attempted' = AttemptedAfterInitialize(tracer, attempted)
             /\ lastIngest' = [called |-> TRUE, via |-> "ingest", records |-> records,
                               raised |-> FALSE, perRecord |-> perRecord]
             /\ upserting' = Upserting(t, Len(chunked_docs))
             /\ UNCHANGED work
  /\ lastQuery' = NoQuery
  /\ UNCHANGED <<server, limiter, clock, lastAllow, allowedLog, documents, stable, lastUpsert,
                 boot, pipeVars, traceRest>>

\* Chunker.transform(records) of the ETL command line, with its own settings
Transform(records, settings) ==
  /\ lastIngest' = [called |-> TRUE, via |-> "transform", records |-> records,
                    raised |-> FALSE,
                    perRecord |-> [r \in 1..Len(records) |->
                                     TransformRecords(records[r], settings.chunk_size,
                                                      settings.chunk_overlap)],
                    returned |-> 0]
  /\ lastQuery' = NoQuery
  /\ UNCHANGED <<restVars, documents, lastUpsert, work, stable, boot, pipeVars, traceVars>>

\* the pipeline's store is queried: query of the store __init__ chose,
\* remote being what near_text does if it is called. The scan of the
\* in-memory list sees every document appended before it reaches the end, so
\* a query among the appends of an ingest returns the hits of the list at the
\* moment its scan ends: one step, taken between any two appends
StoreQuery(query, top_k, remote) ==
  /\ boot.state = "built"
  /\ LET got == IF cfg.store = "memory"
                THEN [raised |-> FALSE, called |-> FALSE,
                      hits |-> InMemoryQuery(documents, query, top_k)]
                ELSE WeaviateQuery(query, top_k, remote)
     IN lastQuery' = [called |-> TRUE, store |-> cfg.store, query |-> query,
                      top_k |-> top_k, docs |-> documents, raised |-> got.raised,
                      net |-> got.called,
                      hits |-> IF got.raised THEN <<>> ELSE got.hits]
  /\ lastIngest' = NoIngest
  /\ UNCHANGED <<restVars, documents, lastUpsert, work, stable, boot, pipeVars, traceVars>>

ServiceNext ==
  \/ \E installed \in BOOLEAN, connect \in ConnectOutcomes, settings \in BootSettingsPool :
       Boot(installed, connect, settings)
  \/ \E t \in Threads, records \in RecordsPool : Ingest(t, records)
  \/ \E t \in Threads : \/ RemoteExists(t)
                        \/ RemoteCreate(t)
                        \/ RemoteGet(t)
                        \/ RemoteInsert(t)
                        \/ RemoteUpsertEnd(t)
  \/ \E t \in Threads : \/ ConcUpsertStep(t)
                        \/ ConcUpsertReturn(t)
  \/ \E records \in RecordsPool, settings \in SettingsPool : Transform(records, settings)
  \/ \E q \in ServiceQueryPool, k \in ConcTopKPool : \E remote \in RemoteOutcomes(k) :
       StoreQuery(q, k, remote)

\* the process before routes is imported
ServiceInit ==
  /\ PipeIdle
  /\ cfg.langgraph
  /\ cfg.graph_state = "replace"
  /\ cfg.api_key = None
  /\ cfg.catalog = NoValue
  /\ cfg.store = "memory"
  /\ TraceFresh
  /\ ServerAtRest
  /\ LimiterAtRest
  /\ env = NoTracing
  /\ documents = <<>>
  /\ lastQuery = NoQuery
  /\ lastUpsert = NoUpsert
  /\ work = [t \in Threads |-> Idle]
  /\ stable = {}
  /\ boot = [state |-> "unbuilt"]
  /\ lastIngest = NoIngest

\* ------------------------------------------- trace_run blocks, nested
\* trace_run is entered on the call chain of t, inside any trace_run blocks the
\* chain has open: the id is bound to _trace_id_var, the token keeps the value
\* the variable had, and the handle is yielded (an error of opening the
\* backend's root span leaves trace_run before anything is bound); under a
\* backend, a block nested in a recorded one gets the trace id of that one
ScopeEnter(t) ==
  /\ tpc[t] = "idle"
  /\ reqs[t] < MaxRequests
  /\ reqs' = [reqs EXCEPT ![t] = @ + 1]
  /\ \E open \in CallOutcomes, trace \in TraceOfSpan(t, reqs[t] + 1, stack[t]),
        setattr \in CallOutcomes :
     \E context \in ContextsOf(trace) :
       LET fallback == LocalId(t, reqs[t] + 1)
           trace_id == IF tracer = NoTracer THEN fallback
                       ELSE RootTraceId(ExtractTraceId(context), fallback)
       IN IF tracer /= NoTracer /\ open = "error"
          THEN /\ ended' = [ended EXCEPT ![t] = "failed_tracing"]
               /\ UNCHANGED <<ambient, handle, stack>>
          ELSE /\ ambient' = [ambient EXCEPT ![t] = trace_id]
               /\ handle' = [handle EXCEPT ![t] = trace_id]
               /\ stack' = [stack EXCEPT ![t] = Append(@,
                    [name |-> "rag_query",
                     kind |-> IF tracer = NoTracer THEN "noop" ELSE "open",
                     tag |-> IF tracer /= NoTracer /\ setattr = "ok" THEN trace_id ELSE None,
                     token |-> TokenOf(ambient[t]),
                     bound |-> trace_id,
                     trace |-> IF tracer = NoTracer THEN 0 ELSE trace])]
               /\ ended' = [ended EXCEPT ![t] = "running"]
  /\ UNCHANGED <<restVars, storeVars, pipeVars, registered, enabled, closedLog, env,
                 tracer, attempted, registerBodies, tpc, ipc, resolved, exc>>

\* the innermost trace_run block of t is left, by its end or by an error it
\* raised: the finally clause resets _trace_id_var with the token, then the
\* backend's span is closed, which may raise
ScopeExit(t, how) ==
  /\ tpc[t] = "idle"
  /\ stack[t] /= <<>>
  /\ LET top == stack[t][Len(stack[t])]
     IN /\ ambient' = [ambient EXCEPT ![t] = ResetVar(top.token)]
        /\ stack' = [stack EXCEPT ![t] = SubSeq(@, 1, Len(@) - 1)]
        /\ \E close \in CallOutcomes :
             ended' = [ended EXCEPT ![t] =
               IF top.kind = "open" /\ close = "error" THEN "failed_tracing"
               ELSE IF how = "error" THEN "failed_block" ELSE "ok"]
  /\ UNCHANGED <<restVars, storeVars, pipeVars, registered, enabled, closedLog, env,
                 tracer, attempted, registerBodies, tpc, ipc, handle, resolved, exc, reqs>>

ScopeNext ==
  \E t \in Threads :
    \/ ScopeEnter(t)
    \/ \E how \in CallOutcomes : ScopeExit(t, how)

\* a process whose tracing layer has been through _initialize_tracer: the
\* tracer is stored when PHOENIX_ENDPOINT is configured, and is None when
\* it is not
ScopeInit ==
  /\ \E active \in BOOLEAN :
       /\ env = [installed |-> TRUE, endpoint |-> active]
       /\ tracer = IF active THEN TheTracer ELSE NoTracer
       /\ registerBodies = IF active THEN 1 ELSE 0
       /\ registered = active
  /\ attempted = TRUE
  /\ tpc = [t \in Threads |-> "idle"]
  /\ ipc = [t \in Threads |-> "none"]
  /\ ambient = [t \in Threads |-> None]
  /\ handle = [t \in Threads |-> None]
  /\ stack = [t \in Threads |-> <<>>]
  /\ resolved = [t \in Threads |-> {}]
  /\ exc = [t \in Threads |-> "none"]
  /\ reqs = [t \in Threads |-> 0]
  /\ ended = [t \in Threads |-> "none"]
  /\ enabled = [t \in Threads |-> [called |-> FALSE]]
  /\ closedLog = [t \in Threads |-> NotLeft]
  /\ ServerAtRest
  /\ LimiterAtRest
  /\ PipeIdle
  /\ cfg = [langgraph |-> TRUE, graph_state |-> "replace", langchain |-> TRUE, api_key |-> <<"k">>,
            catalog |-> NoValue, store |-> "memory"]
  /\ documents = <<>>
  /\ lastQuery = NoQuery
  /\ StoreAtRest

RemoteNext ==
  \E t \in Threads :
    \/ \E n \in RemoteBatchSizes : RemoteUpsertStart(t, n)
    \/ RemoteExists(t)
    \/ RemoteCreate(t)
    \/ RemoteGet(t)
    \/ RemoteInsert(t)
    \/ RemoteUpsertEnd(t)

\* the store is connected; the collection may be left from an earlier run
RemoteInit ==
  /\ PipeIdle
  /\ cfg = [langgraph |-> FALSE, graph_state |-> "replace", langchain |-> FALSE, api_key |-> None,
            catalog |-> NoValue, store |-> "weaviate"]
  /\ TraceFresh
  /\ env = NoTracing
  /\ documents = <<>>
  /\ lastQuery = NoQuery
  /\ StoreAtRest
  /\ LimiterAtRest
  /\ \E present \in BOOLEAN :
       server = [exists |-> present, creates |-> 0, objects |-> 0,
                 createdWhilePresent |-> FALSE, insertedWhileAbsent |-> FALSE]
  /\ upserting = [t \in Threads |-> NoCall]

\* ------------------------------------------------------------ RateLimiter
\* how far the monotonic clock is followed
MaxTime == 3

\* what a request carries: the X-API-Key header ("" when missing) and the
\* client, absent or <<host>>
RequestPool ==
  {[key |-> k, client |-> c] : k \in {"", "key-a"},
                               c \in {NoValue, <<"">>, <<"10.0.0.1">>}}

\* the identity enforce_rate_limit derives from a request
IdentityOf(request) ==
  LET fromKey == IF request.key /= "" THEN <<request.key>> ELSE NoValue
      fromClient ==
        IF fromKey = NoValue /\ request.client /= NoValue
          THEN <<IF request.client[1] /= "" THEN request.client[1] ELSE "anonymous">>
          ELSE fromKey
  IN IF fromClient /= NoValue /\ fromClient[1] /= "" THEN fromClient[1] ELSE "anonymous"

Identities == {IdentityOf(r) : r \in RequestPool}

\* settings.rate_limit_per_minute and settings.rate_limit_window_seconds
LimitSettingsPool ==
  {[per_minute |-> 0, window_seconds |-> 0],
   [per_minute |-> 1, window_seconds |-> 1],
   [per_minute |-> 2, window_seconds |-> 2]}

\* RateLimiter.__init__: both settings are raised to one; _hits is a defaultdict,
\* so an identity never seen has the empty bucket
RateLimiter(limit, window_seconds) ==
  [built |-> TRUE, limit |-> Max(limit, 1), window |-> Max(window_seconds, 1),
   hits |-> [i \in Identities |-> <<>>]]

\* _get_limiter: the limiter is built from the settings by the first request
GetLimiter(lim) ==
  IF lim.built THEN lim ELSE RateLimiter(lim.per_minute, lim.window_seconds)

\* a fault: the whole bucket is dropped as soon as its oldest entry has expired
EvictAll(bucket, now, window) ==
  IF bucket /= <<>> /\ now - bucket[1] > window THEN <<>> ELSE bucket

\* the loop of allow(): entries strictly older than the window leave from the left
RECURSIVE Evict(_, _, _)
Evict(bucket, now, window) ==
  IF bucket /= <<>> /\ now - bucket[1] > window
    THEN Evict(Tail(bucket), now, window)
    ELSE bucket

\* RateLimiter.allow: the answer and the buckets it leaves
Allow(lim, identity, now) ==
  LET bucket == Evict(lim.hits[identity], now, lim.window)
      ok == ~(Len(bucket) >= lim.limit)
  IN [allowed |-> ok,
      hits |-> [lim.hits EXCEPT ![identity] = IF ok THEN Append(bucket, now) ELSE bucket]]

\* time passes between two requests
Tick ==
  /\ clock < MaxTime
  /\ clock' = clock + 1
  /\ UNCHANGED <<server, upserting, limiter, lastAllow, allowedLog,
                 storeVars, pipeVars, traceVars>>

\* enforce_rate_limit runs on the event loop and never awaits, so a request
\* passes through it in one step: answered (allowed) or refused with 429
EnforceRateLimit(request) ==
  LET lim == GetLimiter(limiter)
      identity == IdentityOf(request)
      r == Allow(lim, identity, clock)
  IN /\ limiter' = [lim EXCEPT !.hits = r.hits]
     /\ lastAllow' = [called |-> TRUE, identity |-> identity, now |-> clock,
                      allowed |-> r.allowed]
     /\ allowedLog' = IF r.allowed
                        THEN [allowedLog EXCEPT ![identity] = Append(@, clock)]
                        ELSE allowedLog
     /\ UNCHANGED <<server, upserting, clock, storeVars, pipeVars, traceVars>>

LimitNext ==
  \/ Tick
  \/ \E request \in RequestPool : EnforceRateLimit(request)

LimitInit ==
  /\ PipeIdle
  /\ cfg = [langgraph |-> FALSE, graph_state |-> "replace", langchain |-> FALSE, api_key |-> None,
            catalog |-> NoValue, store |-> "memory"]
  /\ TraceFresh
  /\ env = NoTracing
  /\ documents = <<>>
  /\ lastQuery = NoQuery
  /\ StoreAtRest
  /\ ServerAtRest
  /\ \E s \in LimitSettingsPool :
       limiter = [built |-> FALSE, per_minute |-> s.per_minute,
                  window_seconds |-> s.window_seconds]
  /\ clock = 0
  /\ lastAllow = NoAllow
  /\ allowedLog = [i \in Identities |-> <<>>]

\* ------------------------------------------------------- specifications
\* the pipeline answering calls of run
Spec == PipeInit /\ [][PipeNext]_vars

\* the in-memory store under upserts and queries, in a process where every
\* optional dependency is absent and no call of run is under way
StoreSpecInit ==
  /\ PipeIdle
  /\ TraceFresh
  /\ ServerAtRest
  /\ LimiterAtRest
  /\ env = NoTracing
  /\ cfg = [langgraph |-> FALSE, graph_state |-> "replace", langchain |-> FALSE, api_key |-> None,
            catalog |-> NoValue, store |-> "memory"]
  /\ documents = <<>>
  /\ lastQuery = NoQuery
  /\ StoreAtRest

SpecStore == StoreSpecInit /\ [][StoreNext]_vars

\* the service from the construction of its pipeline on: ingests and
\* queries of the store
SpecService == ServiceInit /\ [][ServiceNext]_vars

\* the in-memory store called by concurrent request threads
SpecStoreConc == StoreSpecInit /\ [][ConcNext]_vars

\* is_enabled asked by concurrent threads
SpecProbe == TraceInit /\ [][ProbeNext]_vars

\* the trace-context layer under concurrent requests
SpecTrace == TraceInit /\ [][TraceNext]_vars

\* trace_run blocks entered and left on two call chains, nested
SpecScope == ScopeInit /\ [][ScopeNext]_vars

\* the remote-backed store under two request threads
SpecRemote == RemoteInit /\ [][RemoteNext]_vars

\* the rate limiter under a stream of requests
SpecLimit == LimitInit /\ [][LimitNext]_vars

\* ------------------------------------------------------------- C11
\* the stored records query q would score, by position
C11_Matches(i, q) ==
  Tokenize(q) \cap Tokenize(documents[i].text) /= {}

\* the records the threads hand to upsert_documents
C11_Upserted == UNION {{b[j] : j \in DOMAIN b} : b \in ConcBatchPool}

\* C11: with upserts and queries of concurrent threads interleaved, every hit
\* of a query is a whole record an upsert appended, under the id of its
\* position, and every record appended by an upsert that had returned when
\* the query started is among the query's candidates if it matches.
C11_ConsistentSnapshot ==
  \A t \in Threads :
    work[t].op = "queried" =>
      /\ \A h \in 1..Len(work[t].hits) :
           \E i \in 1..Len(documents) :
             /\ work[t].hits[h].id = <<"inmemory-", i - 1>>
             /\ work[t].hits[h].payload = documents[i]
             /\ documents[i] \in C11_Upserted
             /\ Truthy(documents[i].text)
      /\ work[t].scanned =>
           \A i \in work[t].must :
             C11_Matches(i, work[t].query) =>
               \E c \in 1..Len(work[t].scored) : work[t].scored[c].idx = i - 1

\* a query that started after one upsert had returned and ran while another
\* thread was appending: it returns the earlier record and one of the later
C11_Witness ==
  \E t \in Threads, u \in Threads :
    /\ work[t].op = "queried"
    /\ work[u].op = "upsert"
    /\ work[u].added /= {}
    /\ \E h \in 1..Len(work[t].hits) : work[t].hits[h].id[2] + 1 \in work[t].must
    /\ \E h \in 1..Len(work[t].hits) : work[t].hits[h].id[2] + 1 \in work[u].added

\* ------------------------------------------------------------- C1
\* C1: every trace id a span() call nested in a request resolved is the
\* trace id of the TraceHandle trace_run yielded for that request.
C1_TraceContinuity ==
  \A t \in Threads : \A id \in resolved[t] : id /= None /\ id = handle[t]

\* two requests inside their nested spans at once: one under a backend root
\* span with the backend's trace id, one under a no-op root with a local id
C1_Witness ==
  \E t \in Threads, u \in Threads :
    /\ resolved[t] = {handle[t]}
    /\ handle[t] = BackendId(t, reqs[t])
    /\ Len(stack[t]) >= 3
    /\ stack[t][1].kind = "open"
    /\ resolved[u] = {handle[u]}
    /\ handle[u] = LocalId(u, reqs[u])
    /\ Len(stack[u]) >= 3
    /\ stack[u][1].kind = "noop"

\* ------------------------------------------------------------- C2
\* C2: at most one execution of _initialize_tracer reaches the registration
\* with the tracing backend, however the first calls interleave.
C2_RegistersAtMostOnce == registerBodies <= 1

\* ------------------------------------------------------------- C3
\* C3: no request fails by an exception of the tracing layer itself, whatever
\* the tracing backend does.
C3_TracingNeverFailsRequest ==
  \A t \in Threads : exc[t] /= "tracing" /\ ended[t] /= "failed_tracing"

\* ------------------------------------------------------------- C4
\* the errors of a failed outbound call (remote store, model), which are not
\* errors of a missing dependency
OutboundErrors == {"StoreError", "LLMError"}

\* C4: whatever optional dependencies are absent, run raises no exception for
\* it, and a returned answer is a generated answer, the extractive fallback or
\* the sentinel.
C4_RunNeverRaisesForMissingDeps ==
  /\ outcome.kind = "raised" => outcome.error \in OutboundErrors
  /\ outcome.kind = "returned" =>
       \/ outcome.result.answer = Sentinel
       \/ outcome.result.answer = Preamble \o
            Join(Slice(Snippets(outcome.result.context), MaxSnippets), <<"\n\n">>)
       \/ \E llm \in LLMOutcomes : llm.ok /\ outcome.result.answer = llm.content

\* ------------------------------------------------------------- C5
\* C5 as claimed: a failed call of a configured model makes generate_answer
\* return the deterministic fallback, and nothing is raised.
C5_FailedCallFallsBack ==
  counters.failed > 0 =>
    /\ outcome.kind /= "raised"
    /\ "answer" \in DOMAIN gstate
    /\ gstate.answer = FallbackAnswer(gstate.context)

\* C5 amended: a failed call of a configured model is raised to the caller of
\* generate_answer and run; no answer, fallback or other, is substituted.
C5_FailedCallRaises ==
  counters.failed > 0 =>
    /\ LLMConfigured(cfg)
    /\ outcome = [kind |-> "raised", error |-> "LLMError"]
    /\ "answer" \notin DOMAIN gstate
    /\ pc = "idle"

\* the model was invoked on a non-empty context and the call failed
C5_Witness ==
  /\ counters.failed = 1
  /\ counters.invoked = 1
  /\ LLMConfigured(cfg)
  /\ Snippets(gstate.context) /= <<>>

\* ------------------------------------------------------------- C6
\* the positions of the items with a non-empty text
C6_NonEmpty(ctx) == {i \in 1..Len(ctx) : "text" \in DOMAIN ctx[i] /\ Len(ctx[i].text) > 0 /\ ctx[i].text /= None}
C6_First(S) == CHOOSE i \in S : \A j \in S : i <= j
\* the sentinel, or the preamble and the first two non-empty texts with a
\* blank line between them
C6_Expected(ctx) ==
  LET ne == C6_NonEmpty(ctx)
  IN IF ne = {} THEN Sentinel
     ELSE LET one == C6_First(ne)
          IN IF ne = {one} THEN Preamble \o ctx[one].text
             ELSE Preamble \o ctx[one].text \o <<"\n\n">> \o ctx[C6_First(ne \ {one})].text

\* C6: without a configured model (library and prompt template missing, or no
\* API key) the generate stage builds no model client, invokes none, raises
\* nothing and answers with the sentinel or the two-snippet fallback.
C6_FallbackWithoutModel ==
  (~LLMConfigured(cfg) /\ counters.generate >= 1) =>
    /\ counters.built = 0
    /\ counters.invoked = 0
    /\ outcome.kind /= "raised"
    /\ "answer" \in DOMAIN gstate
    /\ gstate.answer = C6_Expected(gstate.context)

\* an unconfigured pipeline answered on a context of more than two non-empty
\* texts, documents and products
C6_Witness ==
  /\ ~LLMConfigured(cfg)
  /\ counters.generate = 1
  /\ "answer" \in DOMAIN gstate
  /\ Cardinality(C6_NonEmpty(gstate.context)) >= 3
  /\ gstate.answer /= Sentinel

\* ------------------------------------------------------------- C7
\* a call of run has ended: it returned or raised
C7_Ended == pc = "idle" /\ outcome.kind \in {"returned", "raised"}

\* C7 as claimed: every call of run that has ended entered the retrieve node
\* exactly once and then the generate node exactly once, the model was
\* invoked at most once for the request, and a returned result carries the
\* answer of the generate node, not one computed again by run.
C7_BothStagesOnceAnswerReused ==
  /\ counters.retrieve <= 1
  /\ counters.generate_node <= 1
  /\ counters.invoked <= 1
  /\ counters.generate_node = 1 => counters.retrieve = 1
  /\ C7_Ended =>
       /\ counters.retrieve = 1
       /\ counters.generate_node = 1
  /\ (outcome.kind = "returned" /\ "answer" \in DOMAIN gstate) =>
       outcome.result.answer = gstate.answer

\* ------------------------------------------------------------- C8
\* C8: the list retrieve returns holds every document item before every
\* product item, and at most three product items.
C8_FusionOrder ==
  "context" \in DOMAIN gstate =>
    LET ctx == gstate.context
    IN /\ \A i \in 1..Len(ctx) : \A j \in 1..Len(ctx) :
            (ctx[i].type = "product" /\ ctx[j].type = "document") => j < i
       /\ \A i \in 1..Len(ctx) : ctx[i].type \in {"document", "product"}
       /\ Cardinality({i \in 1..Len(ctx) : ctx[i].type = "product"}) <= 3

\* retrieve returned documents and products, the catalog search having
\* matched more than three products
C8_Witness ==
  /\ "context" \in DOMAIN gstate
  /\ \E i \in 1..Len(gstate.context) : gstate.context[i].type = "document"
  /\ Cardinality({i \in 1..Len(gstate.context) : gstate.context[i].type = "product"}) = 3
  /\ cfg.catalog /= NoValue
  /\ Len(Search(cfg.catalog[1], NonEmptyFilters(StateFilters))) > 3

\* ------------------------------------------------------------- C9
\* C9: once _build_product_context has consulted the catalog, the products
\* came from the filter search if a filter value is non-empty and from the
\* free-text lookup if none is, and neither raised.
C9_ProductLookupPaths ==
  productPath /= "none" =>
    /\ DOMAIN NonEmptyFilters(StateFilters) /= {} => productPath = "filter"
    /\ DOMAIN NonEmptyFilters(StateFilters) = {} => productPath = "freetext"
    /\ ~(outcome.kind = "raised" /\ outcome.error \notin OutboundErrors)

\* ------------------------------------------------------------ C10
\* the token set of a text: its case-folded alphanumeric runs
C10_Tok(text) == {Lower(w) : w \in FindRuns(text, 1, <<>>)}
C10_Tokens(docs, i) == C10_Tok(GetOr(docs[i], "text", <<>>))
C10_Overlap(docs, q, i) == Cardinality(C10_Tok(q) \cap C10_Tokens(docs, i))
C10_Candidates(docs, q) ==
  {i \in 1..Len(docs) : C10_Tok(q) \cap C10_Tokens(docs, i) /= {}}
C10_Pos(hits, h) == hits[h].id[2] + 1

\* the score of stored document i (1-based) for query q as the real number
\* overlap / sqrt(tokens), kept as <<overlap, tokens>>; two of them compare as
\* their squares overlap^2 / tokens do
C10_Score(docs, q, i) == <<C10_Overlap(docs, q, i), Cardinality(C10_Tokens(docs, i))>>
C10_RealGT(s1, s2) == s1[1] * s1[1] * s2[2] > s2[1] * s2[1] * s1[2]
C10_RealEQ(s1, s2) == s1[1] * s1[1] * s2[2] = s2[1] * s2[1] * s1[2]
\* i ranks strictly before j: greater score, or equal score and inserted first
C10_Before(docs, q, i, j) ==
  \/ C10_RealGT(C10_Score(docs, q, i), C10_Score(docs, q, j))
  \/ C10_RealEQ(C10_Score(docs, q, i), C10_Score(docs, q, j)) /\ i < j

\* the same with the score as the double the division of line 127 yields
C10_Double(docs, q, i) == ScoreOf(C10_Overlap(docs, q, i), Cardinality(C10_Tokens(docs, i)))
C10_BeforeByDouble(docs, q, i, j) ==
  \/ ScoreGT(C10_Double(docs, q, i), C10_Double(docs, q, j))
  \/ ScoreEQ(C10_Double(docs, q, i), C10_Double(docs, q, j)) /\ i < j

\* C10 as stated: a query with top_k >= 1 returns exactly the stored documents
\* sharing a token with the query, best score first with the score the real
\* number overlap / sqrt(tokens), equal scores in insertion order, cut to the
\* first top_k.
C10_QueryRanked ==
  (lastQuery.called /\ lastQuery.top_k >= 1) =>
    LET docs == lastQuery.docs
        q == lastQuery.query
        hits == lastQuery.hits
        cand == C10_Candidates(docs, q)
        got == {C10_Pos(hits, h) : h \in 1..Len(hits)}
    IN /\ Len(hits) = Min(lastQuery.top_k, Cardinality(cand))
       /\ got \subseteq cand
       /\ \A h \in 1..Len(hits) : hits[h].payload = docs[C10_Pos(hits, h)]
       /\ \A h \in 1..(Len(hits) - 1) :
            C10_Before(docs, q, C10_Pos(hits, h), C10_Pos(hits, h + 1))
       /\ \A c \in cand \ got : \A h \in 1..Len(hits) :
            C10_Before(docs, q, C10_Pos(hits, h), c)

\* C10 amended: a query with top_k >= 1 returns exactly the stored documents
\* sharing a token with the query, each with the double overlap / sqrt(tokens)
\* as its score, the greater double first, equal doubles in insertion order,
\* cut to the first top_k. (The doubles are those of ScoreTable, which holds
\* what the square root and the division compute.)
C10_QueryRankedByDouble ==
  /\ ScoreTableComputed
  /\ (lastQuery.called /\ lastQuery.top_k >= 1) =>
    LET docs == lastQuery.docs
        q == lastQuery.query
        hits == lastQuery.hits
        cand == C10_Candidates(docs, q)
        got == {C10_Pos(hits, h) : h \in 1..Len(hits)}
    IN /\ Len(hits) = Min(lastQuery.top_k, Cardinality(cand))
       /\ got \subseteq cand
       /\ \A h \in 1..Len(hits) :
            /\ hits[h].payload = docs[C10_Pos(hits, h)]
            /\ hits[h].score = C10_Double(docs, q, C10_Pos(hits, h))
       /\ \A h \in 1..(Len(hits) - 1) :
            C10_BeforeByDouble(docs, q, C10_Pos(hits, h), C10_Pos(hits, h + 1))
       /\ \A c \in cand \ got : \A h \in 1..Len(hits) :
            C10_BeforeByDouble(docs, q, C10_Pos(hits, h), c)

\* a query that returned, the later inserted first, two documents of the same
\* real score whose doubles differ, and left out by truncation a candidate
\* whose double equals that of the last hit
C10_Witness ==
  /\ lastQuery.called
  /\ lastQuery.top_k >= 1
  /\ \E h \in 1..(Len(lastQuery.hits) - 1) :
       /\ C10_RealEQ(C10_Score(lastQuery.docs, lastQuery.query, C10_Pos(lastQuery.hits, h)),
                     C10_Score(lastQuery.docs, lastQuery.query, C10_Pos(lastQuery.hits, h + 1)))
       /\ ScoreGT(lastQuery.hits[h].score, lastQuery.hits[h + 1].score)
       /\ C10_Pos(lastQuery.hits, h) > C10_Pos(lastQuery.hits, h + 1)
  /\ \E c \in C10_Candidates(lastQuery.docs, lastQuery.query) :
       /\ \A h \in 1..Len(lastQuery.hits) : C10_Pos(lastQuery.hits, h) /= c
       /\ ScoreEQ(C10_Double(lastQuery.docs, lastQuery.query, c),
                  lastQuery.hits[Len(lastQuery.hits)].score)

\* ------------------------------------------------------------- C20
\* the positions of the batch that hold a record with a non-empty text
C20_Kept(batch) ==
  {j \in DOMAIN batch : "text" \in DOMAIN batch[j] /\ batch[j].text \notin {<<>>, None}}
\* the k-th of them
C20_Kth(batch, k) ==
  CHOOSE j \in C20_Kept(batch) : Cardinality({x \in C20_Kept(batch) : x <= j}) = k

\* C20: after upsert_documents of the in-memory store the collection is the
\* old collection followed by as many new records as the call returned, and
\* these are the records of the batch with a text, in the order of the batch.
C20_UpsertCountsStored ==
  lastUpsert.called =>
    LET before == lastUpsert.before
        n == lastUpsert.returned
    IN /\ Len(documents) = Len(before) + n
       /\ SubSeq(documents, 1, Len(before)) = before
       /\ n = Cardinality(C20_Kept(lastUpsert.batch))
       /\ \A k \in 1..n :
            documents[Len(before) + k] = lastUpsert.batch[C20_Kth(lastUpsert.batch, k)]

\* an upsert on a non-empty store that stored one record of its batch and
\* skipped another
C20_Witness ==
  /\ lastUpsert.called
  /\ lastUpsert.before /= <<>>
  /\ lastUpsert.returned >= 1
  /\ lastUpsert.returned < Len(lastUpsert.batch)

\* ------------------------------------------------------------- C12
\* C12: the construction of the pipeline never fails on account of the
\* remote store: a failed connection ends in a pipeline on the in-memory
\* store, never in an exception or a missing pipeline.
C12_ConstructionFallsBack == boot.state \in {"unbuilt", "built"}

\* ------------------------------------------------------------- C18
\* C18: a query with the empty string returns no hit, raises nothing and
\* makes no call to the remote store, on either store; the in-memory store
\* holding no document returns no hit for any query.
C18_EmptyQueryEmptyResult ==
  lastQuery.called =>
    /\ lastQuery.query = <<>> =>
         (lastQuery.hits = <<>> /\ ~lastQuery.raised /\ ~lastQuery.net)
    /\ (lastQuery.store = "memory" /\ lastQuery.docs = <<>>) =>
         (lastQuery.hits = <<>> /\ ~lastQuery.raised)

\* the empty string was put to a pipeline constructed on the remote store
C18_Witness ==
  /\ lastQuery.called
  /\ boot.state = "built"
  /\ lastQuery.store = "weaviate"
  /\ lastQuery.query = <<>>
  /\ lastQuery.hits = <<>>
  /\ ~lastQuery.net

\* ------------------------------------------------------------- C19
\* C19: every chunk record of the transform carries section_index, equal to
\* the 0-based position of the chunk among the chunks of its source record,
\* and every other non-text field of that record with its value.
C19_SectionIndexIsPosition ==
  (lastIngest.called /\ ~lastIngest.raised) =>
    \A r \in DOMAIN lastIngest.perRecord :
      \A k \in DOMAIN lastIngest.perRecord[r] :
        LET chunk == lastIngest.perRecord[r][k]
            record == lastIngest.records[r]
        IN /\ "section_index" \in DOMAIN chunk
           /\ chunk.section_index = k - 1
           /\ \A f \in DOMAIN record \ {"text", "section_index"} :
                f \in DOMAIN chunk /\ chunk[f] = record[f]

\* ------------------------------------------------------------- C17
\* no item of the context has a text (the context may hold no item at all)
C17_NoText(ctx) ==
  \A i \in 1..Len(ctx) : "text" \notin DOMAIN ctx[i] \/ ctx[i].text \in {<<>>, None}

\* C17: on a context without any text the generate stage answers with the
\* sentinel, builds and invokes no model client and raises nothing, with or
\* without a configured model.
C17_EmptyContextSentinel ==
  (counters.generate >= 1 /\ "context" \in DOMAIN gstate /\ C17_NoText(gstate.context)) =>
    /\ counters.built = 0
    /\ counters.invoked = 0
    /\ outcome.kind /= "raised"
    /\ "answer" \in DOMAIN gstate
    /\ gstate.answer = Sentinel

\* a pipeline with a configured model answered on a context whose only item
\* has an empty text
C17_Witness ==
  /\ LLMConfigured(cfg)
  /\ counters.generate = 1
  /\ "context" \in DOMAIN gstate
  /\ gstate.context /= <<>>
  /\ C17_NoText(gstate.context)
  /\ "answer" \in DOMAIN gstate
  /\ gstate.answer = Sentinel

\* ------------------------------------------------------------- C13
\* C13: once a call of _initialize_tracer has completed with a tracer, no
\* later step contacts the backend for a registration or changes _tracer.
C13_NeverRetried ==
  [][tracer = TheTracer => (tracer' = TheTracer /\ registerBodies' = registerBodies)]_vars

\* ------------------------------------------------------------- C14
\* C14: every call of is_enabled returns, and returns true exactly if a
\* registration with the backend has succeeded by then.
C14_EnabledIffRegistered ==
  [][\A t \in Threads :
       (tpc[t] = "is_enabled" /\ tpc'[t] = "idle") =>
         (~enabled'[t].raised /\ (enabled'[t].value <=> registered))]_vars

\* ------------------------------------------------------------- C15
\* C15: an error of the block travels through every span of the request
\* unchanged: no step of the unwinding replaces it by another exception.
C15_ErrorPropagatesUnchanged ==
  [][\A t \in Threads :
       (tpc[t] = "unwind" /\ exc[t] = "block") => exc'[t] = "block"]_vars

\* ------------------------------------------------------------- C16
\* C16: a request that has ended has no span open, and every backend span a
\* cancellation went through was marked as errored when it was closed.
C16_CancelClosesAndMarks ==
  \A t \in Threads :
    /\ tpc[t] = "idle" => stack[t] = <<>>
    /\ (closedLog[t].left /\ closedLog[t].kind = "open" /\ closedLog[t].cause = "cancel")
         => closedLog[t].marked

\* ------------------------------------------------------------- C25
\* any limit + 1 calls that allow() let through for one identity span more than
\* the window: no window of window_seconds holds more than limit of them
C25_AtMostLimitPerWindow ==
  \A i \in Identities :
    \A j, k \in DOMAIN allowedLog[i] :
      k - j >= limiter.limit => allowedLog[i][k] - allowedLog[i][j] > limiter.window

\* what one call of allow() may change: nothing when it answers false, and only
\* the bucket of its own identity when it answers true
C25_CallStep ==
  LET before == GetLimiter(limiter).hits
  IN (limiter' /= limiter \/ lastAllow' /= lastAllow) =>
       /\ \A j \in Identities \ {lastAllow'.identity} : limiter'.hits[j] = before[j]
       /\ ~lastAllow'.allowed => limiter'.hits = before

\* C25: no bucket of the RateLimiter ever holds more than limit timestamps, so
\* at most limit calls are allowed within any window of window_seconds; a
\* call that returns false records nothing, and a call for one identity never
\* changes the bucket of another
C25_BucketsBounded ==
  /\ [](limiter.built =>
          /\ \A i \in Identities : Len(limiter.hits[i]) <= limiter.limit
          /\ C25_AtMostLimitPerWindow)
  /\ [][C25_CallStep]_vars

\* a refused call after an eviction, while another identity holds entries
C25_Witness ==
  /\ lastAllow.called /\ ~lastAllow.allowed
  /\ Len(limiter.hits[lastAllow.identity]) = limiter.limit
  /\ Len(allowedLog[lastAllow.identity]) > limiter.limit
  /\ \E j \in Identities \ {lastAllow.identity} : limiter.hits[j] /= <<>>

\* ------------------------------------------------------------- C22
\* C22: over any upsert_documents calls on the remote-backed store, interleaved
\* ones included, no document is inserted before the collection exists and
\* creation is issued only while the collection is absent, hence at most once
C22_CreatedAtMostOnce ==
  /\ ~server.insertedWhileAbsent
  /\ ~server.createdWhilePresent
  /\ server.creates <= 1

\* ------------------------------------------------------------- C21
C21_HexDigitSet == {HexDigits[d] : d \in 1..16}
C21_IsHex32(id) ==
  /\ id /= None
  /\ Len(id) = 32
  /\ \A i \in 1..Len(id) : id[i] \in C21_HexDigitSet

\* C21 as claimed: every call of trace_run yields a handle, so a call that
\* has ended holds one; the handle carries a non-null 32-character hex id,
\* the id of the backend's root span when a backend is active and a locally
\* generated one otherwise
C21_AlwaysYieldsBackendOrLocalId ==
  \A t \in Threads :
    /\ (tpc[t] = "idle" /\ reqs[t] > 0) => C21_IsHex32(handle[t])
    /\ stack[t] /= <<>> =>
         /\ C21_IsHex32(handle[t])
         /\ handle[t] = IF stack[t][1].kind = "open" THEN BackendId(t, reqs[t])
                                                     ELSE LocalId(t, reqs[t])

\* C21, first half alone: a call of trace_run that has ended has yielded a
\* handle (violated when opening the root span raises, lines 106 and 84)
C21_AlwaysYields ==
  \A t \in Threads : (tpc[t] = "idle" /\ reqs[t] > 0) => handle[t] /= None

\* C21, second half alone: under an open root span of the backend the handle
\* carries the backend's id (violated by the fallback of line 107)
C21_BackendIdUnderOpenRoot ==
  \A t \in Threads :
    (stack[t] /= <<>> /\ stack[t][1].kind = "open") => handle[t] = BackendId(t, reqs[t])

\* ------------------------------------------------------------- C23
\* C23: the ambient trace id is scoped to the trace_run blocks of its call
\* chain: inside a block it is the id the innermost open block bound, so when
\* a block is left, normally or with an error, it is again what it was before
\* the block was entered (the id of the enclosing block, if any), and
\* outside any trace_run it is null
C23_AmbientScoped ==
  \A t \in Threads :
    ambient[t] = IF stack[t] = <<>> THEN None ELSE stack[t][Len(stack[t])].bound

\* an inner block has been left with an error and the enclosing block is open,
\* while the other call chain has left all its blocks
C23_Witness ==
  /\ reqs["t1"] = 2 /\ Len(stack["t1"]) = 1
  /\ stack["t1"][1].bound \in {LocalId("t1", 1), BackendId("t1", 1)}
  /\ ended["t1"] = "failed_block"
  /\ ambient["t1"] = stack["t1"][1].bound
  /\ reqs["t2"] = 2 /\ stack["t2"] = <<>> /\ ambient["t2"] = None
  /\ handle["t2"] /= None

\* ------------------------------------------------------------- C24
\* C24: with two requests running at the same time, each inside its own
\* trace_run, no span() call of one request resolves the trace id the other
\* request has bound
C24_NoLeakBetweenRequests ==
  \A t \in Threads : \A u \in Threads \ {t} :
    stack[u] /= <<>> => ambient[u] \notin resolved[t] /\ handle[u] \notin resolved[t]

\* both requests are inside their trace_run, each with spans that resolved an id
C24_Witness ==
  \A t \in Threads :
    /\ Len(stack[t]) >= 2
    /\ Cardinality(resolved[t]) >= 1
    /\ ambient[t] /= None

=============================================================================
